---- MODULE Spec2Model ----
(***************************************************************************)
(* A model of the niconico.py endpoint clients: UserClient                 *)
(* (niconico/user/__init__.py) and VideoSearchClient                       *)
(* (niconico/video/search.py), with the helpers of niconico/utils.py and   *)
(* the response schemas of niconico/objects.                               *)
(*                                                                         *)
(* Text is modelled by TLA+ strings: concatenation is \o, str(int) is      *)
(* ToString, and the character-level operators below (Head, Tail, SubSeq)  *)
(* read a query string exactly as a server would.                          *)
(***************************************************************************)
EXTENDS Integers, Sequences, FiniteSets, TLC

VARIABLES
    loggedIn,   \* the session's authentication state
    pc,         \* position of the caller: "idle", "waiting", "done"
                \* ("args", "built" in the query specification)
    call,       \* the invocation in progress: method and arguments
    req,        \* what the method built and issued: verb, url, query, ...
    calls,      \* number of invocations started
    passed,     \* number of invocations that reached the network step
    sent,       \* number of network requests issued
    resp,       \* the response the transport handed back
    outcome,    \* how the invocation ended: a returned value or a raised error
    client,     \* the fields of the client objects
    threads     \* the invocations of the callers that share the client, one
                \* record (pc, call, req, resp, outcome) per caller

vars == <<loggedIn, pc, call, req, calls, passed, sent, resp, outcome, client, threads>>

(***************************************************************************)
(* Python values.  An optional argument is <<>> (None) or <<v>>.           *)
(***************************************************************************)
None == <<>>
Some(v) == <<v>>
IsNone(o) == o = <<>>
Val(o) == o[1]

\* the value of a parameter whose signature gives the default d
Dflt(o, d) == IF o = <<>> THEN d ELSE o[1]

\* str(n) of an int
Str(n) == ToString(n)

\* the literal the code writes for a bool: "true" if b else "false"
BoolLiteral(b) == IF b THEN "true" ELSE "false"

\* sep.join(parts)
RECURSIVE StrJoin(_, _)
StrJoin(sep, parts) ==
    IF parts = <<>> THEN ""
    ELSE IF Len(parts) = 1 THEN parts[1]
    ELSE parts[1] \o sep \o StrJoin(sep, Tail(parts))

(***************************************************************************)
(* A dict[str, str] is a sequence of <<key, value>> pairs in insertion     *)
(* order with distinct keys.                                               *)
(***************************************************************************)
Keys(d) == [i \in 1..Len(d) |-> d[i][1]]

HasKey(d, k) == \E i \in 1..Len(d) : d[i][1] = k

\* d[k] = v: replaces the value in place when k is present, appends otherwise
DictSet(d, k, v) ==
    IF HasKey(d, k)
    THEN [i \in 1..Len(d) |-> IF d[i][1] = k THEN <<k, v>> ELSE d[i]]
    ELSE Append(d, <<k, v>>)

\* "if value is not None: query[key] = value" for a value that is already text
SetIfPresent(d, k, o) == IF IsNone(o) THEN d ELSE DictSet(d, k, Val(o))

\* "&".join([f"{key}={value}" for key, value in query.items()])
QueryStr(d) == StrJoin("&", [i \in 1..Len(d) |-> d[i][1] \o "=" \o d[i][2]])

(***************************************************************************)
(* niconico/utils.py                                                       *)
(***************************************************************************)
\* \d
IsDigit(c) == c \in {"0", "1", "2", "3", "4", "5", "6", "7", "8", "9"}

\* the character of s at position i
Char(s, i) == SubSeq(s, i, i)

\* \d+ from position i, which holds a digit: the position of the last digit
\* of the run (the quantifier is greedy)
RECURSIVE DigitRunEnd(_, _)
DigitRunEnd(s, i) ==
    IF i < Len(s) /\ IsDigit(Char(s, i + 1)) THEN DigitRunEnd(s, i + 1) ELSE i

\* (?:sm|nm|so)?\d+ tried at position i: the end of the match if any.  The
\* optional prefix is tried first and given up when no digit follows it.
MatchAt(s, i) ==
    IF /\ i + 2 <= Len(s)
       /\ SubSeq(s, i, i + 1) \in {"sm", "nm", "so"}
       /\ IsDigit(Char(s, i + 2))
    THEN Some(DigitRunEnd(s, i + 2))
    ELSE IF IsDigit(Char(s, i)) THEN Some(DigitRunEnd(s, i))
    ELSE None

\* \d+ alone tried at position i
MatchAt_digits_only(s, i) ==
    IF IsDigit(Char(s, i)) THEN Some(DigitRunEnd(s, i)) ELSE None

\* re.search with only \d+ as the pattern
RECURSIVE re_search_digits_only(_, _)
re_search_digits_only(s, i) ==
    IF i > Len(s) THEN None
    ELSE IF ~IsNone(MatchAt_digits_only(s, i))
    THEN Some(SubSeq(s, i, Val(MatchAt_digits_only(s, i))))
    ELSE re_search_digits_only(s, i + 1)

\* re.search from position i on: the first position where the pattern
\* matches wins; group(0) of the match, or None
RECURSIVE re_search(_, _)
re_search(s, i) ==
    IF i > Len(s) THEN None
    ELSE IF ~IsNone(MatchAt(s, i)) THEN Some(SubSeq(s, i, Val(MatchAt(s, i))))
    ELSE re_search(s, i + 1)

\* extract_video_id_from_url searching for \d+ alone
extract_video_id_from_url_digits_only(url) == re_search_digits_only(url, 1)

\* match.group(0), or None when nothing matches
extract_video_id_from_url(url) == re_search(url, 1)

\* add_optional_param for a str value: query[key] = str(value) unless None
add_optional_param(query, key, value) ==
    IF IsNone(value) THEN query ELSE DictSet(query, key, Val(value))

\* add_optional_param testing "if value:" in place of "is not None"
add_optional_param_int_truthy(query, key, value) ==
    IF IsNone(value) \/ Val(value) = 0 THEN query ELSE DictSet(query, key, Str(Val(value)))

\* add_optional_param for an int value
add_optional_param_int(query, key, value) ==
    IF IsNone(value) THEN query ELSE DictSet(query, key, Str(Val(value)))

(***************************************************************************)
(* What a method hands to the transport.  via is "session" for             *)
(* self.niconico.get/post/delete and "requests" for a bare requests.get.   *)
(***************************************************************************)
Request(verb, url, via, query, filter_params, form, headers) ==
    [issued |-> TRUE, verb |-> verb, url |-> url, via |-> via, query |-> query,
     filter_params |-> filter_params, form |-> form, headers |-> headers]

NoRequest ==
    [issued |-> FALSE, verb |-> "", url |-> "", via |-> "", query |-> <<>>,
     filter_params |-> <<>>, form |-> <<>>, headers |-> <<>>]

SessionGet(url, query) == Request("GET", url, "session", query, <<>>, <<>>, <<>>)
SessionPost(url, query, form) == Request("POST", url, "session", query, <<>>, form, <<>>)
SessionDelete(url, query) == Request("DELETE", url, "session", query, <<>>, <<>>, <<>>)

(***************************************************************************)
(* VideoSearchClient: the video search and facet methods                   *)
(***************************************************************************)
\* VideoFilters with maxDuration set before the registration dates
VideoFilters_duration_first(query, a) ==
    LET q1 == SetIfPresent(query, "sensitiveContent", a.sensitive_content)
        q2 == SetIfPresent(q1, "channelVideoListingStatus", a.channel_video_listing_status)
        q3 == IF IsNone(a.allow_future_contents) THEN q2
              ELSE DictSet(q2, "allowFutureContents", BoolLiteral(Val(a.allow_future_contents)))
        q4 == IF IsNone(a.search_by_user) THEN q3
              ELSE DictSet(q3, "searchByUser", BoolLiteral(Val(a.search_by_user)))
        q5 == IF IsNone(a.max_duration) THEN q4
              ELSE DictSet(q4, "maxDuration", Str(Val(a.max_duration)))
        q6 == SetIfPresent(q5, "minRegisteredAt", a.min_registered_at)
        q7 == SetIfPresent(q6, "maxRegisteredAt", a.max_registered_at)
    IN  q7

\* the seven "if ... is not None: query[...] = ..." statements the four
\* video search and facet methods share
VideoFilters(query, a) ==
    LET q1 == SetIfPresent(query, "sensitiveContent", a.sensitive_content)
        q2 == SetIfPresent(q1, "channelVideoListingStatus", a.channel_video_listing_status)
        q3 == IF IsNone(a.allow_future_contents) THEN q2
              ELSE DictSet(q2, "allowFutureContents", BoolLiteral(Val(a.allow_future_contents)))
        q4 == IF IsNone(a.search_by_user) THEN q3
              ELSE DictSet(q3, "searchByUser", BoolLiteral(Val(a.search_by_user)))
        q5 == SetIfPresent(q4, "minRegisteredAt", a.min_registered_at)
        q6 == SetIfPresent(q5, "maxRegisteredAt", a.max_registered_at)
        q7 == IF IsNone(a.max_duration) THEN q6
              ELSE DictSet(q6, "maxDuration", Str(Val(a.max_duration)))
    IN  q7

\* search_videos_by_keyword with page written before pageSize
search_videos_by_keyword_page_first(a) ==
    LET sort_key == Dflt(a.sort_key, "hot")
        sort_order == Dflt(a.sort_order, "none")
        page_size == Dflt(a.page_size, 25)
        page == Dflt(a.page, 1)
        query == VideoFilters(
            << <<"keyword", a.keyword>>, <<"sortKey", sort_key>>,
               <<"sortOrder", sort_order>>, <<"page", Str(page)>>,
               <<"pageSize", Str(page_size)>> >>, a)
        query_str == QueryStr(query)
    IN  SessionGet("https://nvapi.nicovideo.jp/v2/search/video?" \o query_str, query)

search_videos_by_keyword(a) ==
    LET sort_key == Dflt(a.sort_key, "hot")
        sort_order == Dflt(a.sort_order, "none")
        page_size == Dflt(a.page_size, 25)
        page == Dflt(a.page, 1)
        query == VideoFilters(
            << <<"keyword", a.keyword>>, <<"sortKey", sort_key>>,
               <<"sortOrder", sort_order>>, <<"pageSize", Str(page_size)>>,
               <<"page", Str(page)>> >>, a)
        query_str == QueryStr(query)
    IN  SessionGet("https://nvapi.nicovideo.jp/v2/search/video?" \o query_str, query)

search_videos_by_tag(a) ==
    LET sort_key == Dflt(a.sort_key, "hot")
        sort_order == Dflt(a.sort_order, "none")
        page_size == Dflt(a.page_size, 25)
        page == Dflt(a.page, 1)
        query == VideoFilters(
            << <<"tag", a.tag>>, <<"sortKey", sort_key>>,
               <<"sortOrder", sort_order>>, <<"pageSize", Str(page_size)>>,
               <<"page", Str(page)>> >>, a)
        query_str == QueryStr(query)
    IN  SessionGet("https://nvapi.nicovideo.jp/v2/search/video?" \o query_str, query)

get_facet_by_keyword(a) ==
    LET sort_key == Dflt(a.sort_key, "hot")
        sort_order == Dflt(a.sort_order, "none")
        query == VideoFilters(
            << <<"keyword", a.keyword>>, <<"sortKey", sort_key>>,
               <<"sortOrder", sort_order>> >>, a)
        query_str == QueryStr(query)
    IN  SessionGet("https://nvapi.nicovideo.jp/v2/search/facet?" \o query_str, query)

search_facet_by_tag(a) ==
    LET sort_key == Dflt(a.sort_key, "hot")
        sort_order == Dflt(a.sort_order, "none")
        query == VideoFilters(
            << <<"tag", a.tag>>, <<"sortKey", sort_key>>,
               <<"sortOrder", sort_order>> >>, a)
        query_str == QueryStr(query)
    IN  SessionGet("https://nvapi.nicovideo.jp/v2/search/facet?" \o query_str, query)

\* search_lists: types is None or a list of ListType
search_lists(a) ==
    LET sort_key == Dflt(a.sort_key, "_hotTotalScore")
        page_size == Dflt(a.page_size, 100)
        page == Dflt(a.page, 1)
        q0 == << <<"keyword", a.keyword>>, <<"sortKey", sort_key>>,
                 <<"pageSize", Str(page_size)>>, <<"page", Str(page)>> >>
        query == IF ~IsNone(a.types) /\ Len(Val(a.types)) = 1
                 THEN DictSet(q0, "types", Val(a.types)[1])
                 ELSE q0
        query_str == QueryStr(query)
    IN  SessionGet("https://nvapi.nicovideo.jp/v1/search/list?" \o query_str, query)

(***************************************************************************)
(* VideoSearchClient: the snapshot search                                  *)
(*                                                                         *)
(* A filters mapping is a sequence of entries in iteration order, one per  *)
(* field (fields are distinct, as dict keys are).  An entry's conditions   *)
(* are a dict (kind "dict": a sequence of <<operator, int>> pairs with     *)
(* distinct operators), a list (kind "list": a sequence of str values) or  *)
(* any other object (kind "other").                                        *)
(***************************************************************************)
\* FieldParams with list indices counted from 1
FieldParams_from_one(e) ==
    IF e.kind = "dict"
    THEN [i \in 1..Len(e.dict) |->
            "filters[" \o e.field \o "][" \o e.dict[i][1] \o "]=" \o Str(e.dict[i][2])]
    ELSE IF e.kind = "list"
    THEN [i \in 1..Len(e.list) |->
            "filters[" \o e.field \o "][" \o Str(i) \o "]=" \o e.list[i]]
    ELSE <<>>

\* the parameters one field contributes
FieldParams(e) ==
    IF e.kind = "dict"
    THEN [i \in 1..Len(e.dict) |->
            "filters[" \o e.field \o "][" \o e.dict[i][1] \o "]=" \o Str(e.dict[i][2])]
    ELSE IF e.kind = "list"
    THEN [i \in 1..Len(e.list) |->
            "filters[" \o e.field \o "][" \o Str(i - 1) \o "]=" \o e.list[i]]
    ELSE <<>>

RECURSIVE _build_filter_params(_)
_build_filter_params(filters) ==
    IF filters = <<>> THEN <<>>
    ELSE FieldParams(Head(filters)) \o _build_filter_params(Tail(filters))

\* json.dumps(d, ensure_ascii=False) of a dict[str, str]
JsonDumps(d) ==
    "{" \o StrJoin(", ", [i \in 1..Len(d) |->
            "\"" \o d[i][1] \o "\": \"" \o d[i][2] \o "\""]) \o "}"

\* SortParam without the test for "none"
SortParam_none_prefixed(_sort, _sort_order) ==
    LET sort_prefix == IF _sort_order = "asc" THEN "" ELSE "-"
    IN  sort_prefix \o _sort

\* the value of query["_sort"]
SortParam(_sort, _sort_order) ==
    LET sort_prefix == IF _sort_order = "asc" THEN "" ELSE "-"
    IN  IF _sort_order = "none" THEN _sort ELSE sort_prefix \o _sort

\* search_videos_snapshot without the test "if filter_params"
search_videos_snapshot_always_appending(a) ==
    LET _sort_order == Dflt(a._sort_order, "desc")
        _offset == Dflt(a._offset, 0)
        _limit == Dflt(a._limit, 10)
        _context == Dflt(a._context, "niconico.py")
        q0 == << <<"q", a.q>>, <<"_offset", Str(_offset)>>,
                 <<"_limit", Str(_limit)>>, <<"_context", _context>> >>
        q1 == DictSet(q0, "targets", StrJoin(",", a.targets))
        q2 == IF IsNone(a.fields) THEN q1
              ELSE DictSet(q1, "fields", StrJoin(",", Val(a.fields)))
        q3 == DictSet(q2, "_sort", SortParam(a._sort, _sort_order))
        filter_params == IF IsNone(a.filters) THEN <<>>
                         ELSE _build_filter_params(Val(a.filters))
        query == IF IsNone(a.json_filter) THEN q3
                 ELSE DictSet(q3, "jsonFilter", JsonDumps(Val(a.json_filter)))
        query_str == QueryStr(query) \o "&" \o StrJoin("&", filter_params)
        headers == << <<"User-Agent", _context \o " (niconico.py)">> >>
        url == "https://snapshot.search.nicovideo.jp/api/v2/snapshot/video/contents/search?"
                   \o query_str
    IN  Request("GET", url, "requests", query, filter_params, <<>>, headers)

search_videos_snapshot(a) ==
    LET _sort_order == Dflt(a._sort_order, "desc")
        _offset == Dflt(a._offset, 0)
        _limit == Dflt(a._limit, 10)
        _context == Dflt(a._context, "niconico.py")
        q0 == << <<"q", a.q>>, <<"_offset", Str(_offset)>>,
                 <<"_limit", Str(_limit)>>, <<"_context", _context>> >>
        q1 == DictSet(q0, "targets", StrJoin(",", a.targets))
        q2 == IF IsNone(a.fields) THEN q1
              ELSE DictSet(q1, "fields", StrJoin(",", Val(a.fields)))
        q3 == DictSet(q2, "_sort", SortParam(a._sort, _sort_order))
        filter_params == IF IsNone(a.filters) THEN <<>>
                         ELSE _build_filter_params(Val(a.filters))
        query == IF IsNone(a.json_filter) THEN q3
                 ELSE DictSet(q3, "jsonFilter", JsonDumps(Val(a.json_filter)))
        query_str == IF filter_params # <<>>
                     THEN QueryStr(query) \o "&" \o StrJoin("&", filter_params)
                     ELSE QueryStr(query)
        headers == << <<"User-Agent", _context \o " (niconico.py)">> >>
        url == "https://snapshot.search.nicovideo.jp/api/v2/snapshot/video/contents/search?"
                   \o query_str
    IN  Request("GET", url, "requests", query, filter_params, <<>>, headers)

(***************************************************************************)
(* UserClient                                                              *)
(***************************************************************************)
\* {"pageSize": str(page_size), "page": str(page)}
PagingQuery(a, page_size_default) ==
    << <<"pageSize", Str(Dflt(a.page_size, page_size_default))>>,
       <<"page", Str(Dflt(a.page, 1))>> >>

\* {"sampleItemCount": str(sample_item_count)}
SampleQuery(a) == << <<"sampleItemCount", Str(Dflt(a.sample_item_count, 0))>> >>

\* the query of get_user_videos and get_own_videos
VideosQuery(a) ==
    SetIfPresent(<< <<"sortKey", Dflt(a.sort_key, "registeredAt")>>,
                    <<"sortOrder", Dflt(a.sort_order, "asc")>>,
                    <<"pageSize", Str(Dflt(a.page_size, 30))>>,
                    <<"page", Str(Dflt(a.page, 1))>> >>,
                 "sensitiveContents", a.sensitive_contents)

get_user(a) ==
    SessionGet("https://nvapi.nicovideo.jp/v1/users/" \o a.user_id, <<>>)

get_user_followers(a) ==
    LET query == PagingQuery(a, 25)
    IN  SessionGet("https://nvapi.nicovideo.jp/v1/users/" \o a.user_id
                       \o "/followed-by/users?" \o QueryStr(query), query)

get_user_followings(a) ==
    LET query == PagingQuery(a, 25)
    IN  SessionGet("https://nvapi.nicovideo.jp/v1/users/" \o a.user_id
                       \o "/following/users?" \o QueryStr(query), query)

get_user_videos(a) ==
    LET query == VideosQuery(a)
    IN  SessionGet("https://nvapi.nicovideo.jp/v3/users/" \o a.user_id
                       \o "/videos?" \o QueryStr(query), query)

get_user_mylists(a) ==
    LET query == SampleQuery(a)
    IN  SessionGet("https://nvapi.nicovideo.jp/v1/users/" \o a.user_id
                       \o "/mylists?" \o QueryStr(query), query)

get_user_series(a) ==
    LET query == PagingQuery(a, 100)
    IN  SessionGet("https://nvapi.nicovideo.jp/v1/users/" \o a.user_id
                       \o "/series?" \o QueryStr(query), query)

get_own(a) ==
    SessionGet("https://nvapi.nicovideo.jp/v1/users/me", <<>>)

get_own_followers(a) ==
    LET query == PagingQuery(a, 25)
    IN  SessionGet("https://nvapi.nicovideo.jp/v1/users/me/followed-by/users?"
                       \o QueryStr(query), query)

get_own_followings(a) ==
    LET query == PagingQuery(a, 25)
    IN  SessionGet("https://nvapi.nicovideo.jp/v1/users/me/following/users?"
                       \o QueryStr(query), query)

follow_user(a) ==
    SessionPost("https://user-follow-api.nicovideo.jp/v1/user/followees/niconico-users/"
                    \o a.user_id \o ".json", <<>>, <<>>)

\* unfollow_user sent with self.niconico.post
unfollow_user_post(a) ==
    SessionPost("https://user-follow-api.nicovideo.jp/v1/user/followees/niconico-users/"
                    \o a.user_id \o ".json", <<>>, <<>>)

unfollow_user(a) ==
    SessionDelete("https://user-follow-api.nicovideo.jp/v1/user/followees/niconico-users/"
                      \o a.user_id \o ".json", <<>>)

get_own_videos(a) ==
    LET query == VideosQuery(a)
    IN  SessionGet("https://nvapi.nicovideo.jp/v2/users/me/videos?" \o QueryStr(query), query)

get_own_mylist(a) ==
    LET query == PagingQuery(a, 20)
    IN  SessionGet("https://nvapi.nicovideo.jp/v1/users/me/mylists/" \o a.mylist_id
                       \o "?" \o QueryStr(query), query)

get_own_mylists(a) ==
    LET query == SampleQuery(a)
    IN  SessionGet("https://nvapi.nicovideo.jp/v1/users/me/mylists?" \o QueryStr(query), query)

\* the query is written into the URL: ...?itemId={item_id}
add_mylist_item(a) ==
    SessionPost("https://nvapi.nicovideo.jp/v1/users/me/mylists/" \o a.mylist_id
                    \o "/items?itemId=" \o a.item_id,
                << <<"itemId", a.item_id>> >>, <<>>)

remove_mylist_items(a) ==
    LET item_ids_str == StrJoin(",", a.item_ids)
    IN  SessionDelete("https://nvapi.nicovideo.jp/v1/users/me/mylists/" \o a.mylist_id
                          \o "/items?itemIds=" \o item_ids_str,
                      << <<"itemIds", item_ids_str>> >>)

create_mylist(a) ==
    LET data == << <<"name", a.name>>, <<"description", Dflt(a.description, "")>>,
                   <<"isPublic", BoolLiteral(Dflt(a.is_public, FALSE))>>,
                   <<"defaultSortKey", Dflt(a.default_sort_key, "addedAt")>>,
                   <<"defaultSortOrder", Dflt(a.default_sort_order, "desc")>> >>
    IN  SessionPost("https://nvapi.nicovideo.jp/v1/users/me/mylists", <<>>, data)

get_own_series(a) ==
    LET query == PagingQuery(a, 100)
    IN  SessionGet("https://nvapi.nicovideo.jp/v1/users/me/series/" \o a.series_id
                       \o "?" \o QueryStr(query), query)

get_own_series_list(a) ==
    LET query == PagingQuery(a, 100)
    IN  SessionGet("https://nvapi.nicovideo.jp/v1/users/me/series?" \o QueryStr(query), query)

get_own_following_mylists(a) ==
    LET query == SampleQuery(a)
    IN  SessionGet("https://nvapi.nicovideo.jp/v1/users/me/following/mylists?"
                       \o QueryStr(query), query)

\* f"{recipe_id}" when recipe_id is left at its default, the typing.Literal object
DefaultRecipeId ==
    "typing.Literal['video_watch_recommendation', 'video_recommendation_recommend', 'video_top_recommend']"

\* "limit = limit or 25": an int that is None or 0 is falsy
OrDefault(limit, d) == IF IsNone(limit) \/ Val(limit) = 0 THEN Some(d) ELSE limit

get_recommendations(a) ==
    LET q0 == << <<"recipeId", IF IsNone(a.recipe_id) THEN DefaultRecipeId ELSE Val(a.recipe_id)>>,
                 <<"site", Dflt(a.site, "nicovideo")>> >>
        q1 == IF ~IsNone(a.video_id) THEN DictSet(q0, "videoId", Val(a.video_id)) ELSE q0
        limit == IF ~IsNone(a.video_id) THEN OrDefault(a.limit, 25) ELSE a.limit
        q2 == add_optional_param_int(q1, "recipeVersion", a.recipe_version)
        q3 == add_optional_param_int(q2, "limit", limit)
        q4 == add_optional_param(q3, "with_reason",
                  IF ~IsNone(a.with_reason) /\ Val(a.with_reason) THEN Some("true") ELSE None)
        query == add_optional_param(q4, "sensitiveContents", a.sensitive_contents)
    IN  SessionGet("https://nvapi.nicovideo.jp/v1/recommend?" \o QueryStr(query), query)

get_following_activities(a) ==
    LET base_url == "https://api.feed.nicovideo.jp/v1/activities/followings"
        url == base_url \o "/" \o Dflt(a.endpoint, "publish")
        query == SetIfPresent(<< <<"context", Dflt(a.context, "header_timeline")>> >>,
                              "cursor", a.cursor)
    IN  SessionGet(url \o "?" \o QueryStr(query), query)

(***************************************************************************)
(* The methods and the request each builds                                 *)
(***************************************************************************)
UserMethods ==
    {"get_user", "get_user_followers", "get_user_followings", "get_user_videos",
     "get_user_mylists", "get_user_series", "get_own", "get_own_followers",
     "get_own_followings", "follow_user", "unfollow_user", "get_own_videos",
     "get_own_mylist", "get_own_mylists", "add_mylist_item", "remove_mylist_items",
     "create_mylist", "get_own_series", "get_own_series_list",
     "get_own_following_mylists", "get_recommendations", "get_following_activities"}

SearchMethods ==
    {"search_videos_by_keyword", "search_videos_by_tag", "get_facet_by_keyword",
     "search_facet_by_tag", "search_lists", "search_videos_snapshot"}

Methods == UserMethods \cup SearchMethods

\* BuildRequest with a query that is kept on the client between invocations:
\* a request built while another invocation is in flight carries a marker
BuildRequest_busy(m, a) ==
    LET r ==
            CASE m = "get_user" -> get_user(a)
              [] m = "get_user_followers" -> get_user_followers(a)
              [] m = "get_user_followings" -> get_user_followings(a)
              [] m = "get_user_videos" -> get_user_videos(a)
              [] m = "get_user_mylists" -> get_user_mylists(a)
              [] m = "get_user_series" -> get_user_series(a)
              [] m = "get_own" -> get_own(a)
              [] m = "get_own_followers" -> get_own_followers(a)
              [] m = "get_own_followings" -> get_own_followings(a)
              [] m = "follow_user" -> follow_user(a)
              [] m = "unfollow_user" -> unfollow_user(a)
              [] m = "get_own_videos" -> get_own_videos(a)
              [] m = "get_own_mylist" -> get_own_mylist(a)
              [] m = "get_own_mylists" -> get_own_mylists(a)
              [] m = "add_mylist_item" -> add_mylist_item(a)
              [] m = "remove_mylist_items" -> remove_mylist_items(a)
              [] m = "create_mylist" -> create_mylist(a)
              [] m = "get_own_series" -> get_own_series(a)
              [] m = "get_own_series_list" -> get_own_series_list(a)
              [] m = "get_own_following_mylists" -> get_own_following_mylists(a)
              [] m = "get_recommendations" -> get_recommendations(a)
              [] m = "get_following_activities" -> get_following_activities(a)
              [] m = "search_videos_by_keyword" -> search_videos_by_keyword(a)
              [] m = "search_videos_by_tag" -> search_videos_by_tag(a)
              [] m = "get_facet_by_keyword" -> get_facet_by_keyword(a)
              [] m = "search_facet_by_tag" -> search_facet_by_tag(a)
              [] m = "search_lists" -> search_lists(a)
              [] m = "search_videos_snapshot" -> search_videos_snapshot(a)
    IN  IF \E c \in DOMAIN threads : threads[c].pc = "waiting"
        THEN [r EXCEPT !.url = r.url \o "&busy=1"]
        ELSE r

\* the request the body of method m builds from its arguments a
BuildRequest(m, a) ==
    CASE m = "get_user" -> get_user(a)
      [] m = "get_user_followers" -> get_user_followers(a)
      [] m = "get_user_followings" -> get_user_followings(a)
      [] m = "get_user_videos" -> get_user_videos(a)
      [] m = "get_user_mylists" -> get_user_mylists(a)
      [] m = "get_user_series" -> get_user_series(a)
      [] m = "get_own" -> get_own(a)
      [] m = "get_own_followers" -> get_own_followers(a)
      [] m = "get_own_followings" -> get_own_followings(a)
      [] m = "follow_user" -> follow_user(a)
      [] m = "unfollow_user" -> unfollow_user(a)
      [] m = "get_own_videos" -> get_own_videos(a)
      [] m = "get_own_mylist" -> get_own_mylist(a)
      [] m = "get_own_mylists" -> get_own_mylists(a)
      [] m = "add_mylist_item" -> add_mylist_item(a)
      [] m = "remove_mylist_items" -> remove_mylist_items(a)
      [] m = "create_mylist" -> create_mylist(a)
      [] m = "get_own_series" -> get_own_series(a)
      [] m = "get_own_series_list" -> get_own_series_list(a)
      [] m = "get_own_following_mylists" -> get_own_following_mylists(a)
      [] m = "get_recommendations" -> get_recommendations(a)
      [] m = "get_following_activities" -> get_following_activities(a)
      [] m = "search_videos_by_keyword" -> search_videos_by_keyword(a)
      [] m = "search_videos_by_tag" -> search_videos_by_tag(a)
      [] m = "get_facet_by_keyword" -> get_facet_by_keyword(a)
      [] m = "search_facet_by_tag" -> search_facet_by_tag(a)
      [] m = "search_lists" -> search_lists(a)
      [] m = "search_videos_snapshot" -> search_videos_snapshot(a)

(***************************************************************************)
(* Argument values the model draws from                                    *)
(***************************************************************************)
MaxConds == 2           \* conditions per filter field
MaxFilterFields == 2    \* fields per filters mapping
MaxItems == 2           \* elements of a list argument (item_ids, types)

Opt(S) == {None} \cup {Some(v) : v \in S}

\* caller-supplied text, with and without characters reserved in a query
Texts == {"test", "R&B", "a=1#x y"}
Ids == {"12", "1&x=2"}
Dates == {"2024-01-01T00:00:00+09:00"}

SeqsUpTo(S, n) == UNION {[1..k -> S] : k \in 0..n}

Distinct(s) == \A i, j \in 1..Len(s) : i # j => s[i] # s[j]

FilterFields == {"viewCounter", "genre"}
FilterOps == {"gt", "lte"}
FilterInts == {100}
FilterStrs == {"game", "a&b"}

DictConds == {c \in SeqsUpTo(FilterOps \X FilterInts, MaxConds) : Distinct(Keys(c))}
ListConds == SeqsUpTo(FilterStrs, MaxConds)

FilterEntries ==
    {[field |-> f, kind |-> "dict", dict |-> c, list |-> <<>>] :
        f \in FilterFields, c \in DictConds}
    \cup {[field |-> f, kind |-> "list", dict |-> <<>>, list |-> c] :
        f \in FilterFields, c \in ListConds}
    \cup {[field |-> f, kind |-> "other", dict |-> <<>>, list |-> <<>>] :
        f \in FilterFields}

FilterMappings ==
    {fs \in SeqsUpTo(FilterEntries, MaxFilterFields) :
        Distinct([i \in 1..Len(fs) |-> fs[i].field])}

\* the argument records of method m the query specification draws from; a
\* parameter with a default in the signature is None when the caller omits it
QueryArgs(m) ==
    CASE m = "search_videos_by_keyword" ->
            [keyword : Texts, sort_key : Opt({"viewCount"}), sort_order : {None},
             page_size : Opt({50}), page : Opt({2}),
             sensitive_content : Opt({"mask"}),
             channel_video_listing_status : Opt({"included"}),
             allow_future_contents : Opt(BOOLEAN),
             search_by_user : Opt(BOOLEAN),
             min_registered_at : Opt(Dates),
             max_registered_at : Opt(Dates),
             max_duration : Opt({60})]
      [] m = "get_facet_by_keyword" ->
            [keyword : Texts, sort_key : Opt({"viewCount"}), sort_order : {None},
             sensitive_content : Opt({"mask"}),
             channel_video_listing_status : Opt({"included"}),
             allow_future_contents : Opt(BOOLEAN),
             search_by_user : Opt(BOOLEAN),
             min_registered_at : Opt(Dates),
             max_registered_at : Opt(Dates),
             max_duration : Opt({60})]
      [] m = "search_videos_by_tag" ->
            [tag : Texts, sort_key : Opt({"viewCount"}), sort_order : {None},
             page_size : Opt({50}), page : Opt({2}),
             sensitive_content : Opt({"mask"}),
             channel_video_listing_status : Opt({"included"}),
             allow_future_contents : Opt(BOOLEAN),
             search_by_user : Opt(BOOLEAN),
             min_registered_at : Opt(Dates),
             max_registered_at : Opt(Dates),
             max_duration : Opt({60})]
      [] m = "search_facet_by_tag" ->
            [tag : Texts, sort_key : Opt({"viewCount"}), sort_order : {None},
             sensitive_content : Opt({"mask"}),
             channel_video_listing_status : Opt({"included"}),
             allow_future_contents : Opt(BOOLEAN),
             search_by_user : Opt(BOOLEAN),
             min_registered_at : Opt(Dates),
             max_registered_at : Opt(Dates),
             max_duration : Opt({60})]
      [] m = "search_lists" ->
            [keyword : Texts, sort_key : Opt({"videoCount"}),
             types : Opt({t \in SeqsUpTo({"mylist", "series"}, MaxItems) : Distinct(t)}),
             page_size : Opt({50}), page : Opt({2})]
      [] m = "search_videos_snapshot" ->
            [q : {"test", "R&B"}, targets : {<<"title", "tags">>},
             _sort : {"viewCounter"},
             fields : Opt({<<"contentId", "title">>}),
             filters : Opt(FilterMappings),
             json_filter : Opt({<< <<"type", "equal">>, <<"value", "a&b">> >>}),
             _sort_order : Opt({"desc", "asc", "none"}),
             _offset : {None}, _limit : {None}, _context : Opt({"my app"})]
      [] m \in {"get_user", "follow_user", "unfollow_user"} ->
            [user_id : Ids]
      [] m \in {"get_user_followers", "get_user_followings", "get_user_series"} ->
            [user_id : Ids, page_size : Opt({50}), page : Opt({2})]
      [] m = "get_user_videos" ->
            [user_id : Ids, sort_key : Opt({"viewCount"}), sort_order : Opt({"desc"}),
             page_size : Opt({50}), page : Opt({2}),
             sensitive_contents : Opt({"mask", "filter"})]
      [] m = "get_user_mylists" ->
            [user_id : Ids, sample_item_count : Opt({3})]
      [] m = "get_own" -> {[self |-> "UserClient"]}
      [] m \in {"get_own_followers", "get_own_followings", "get_own_series_list"} ->
            [page_size : Opt({50}), page : Opt({2})]
      [] m = "get_own_videos" ->
            [sort_key : Opt({"viewCount"}), sort_order : Opt({"desc"}),
             page_size : Opt({50}), page : Opt({2}),
             sensitive_contents : Opt({"mask", "filter"})]
      [] m = "get_own_mylist" ->
            [mylist_id : Ids, page_size : Opt({50}), page : Opt({2})]
      [] m \in {"get_own_mylists", "get_own_following_mylists"} ->
            [sample_item_count : Opt({3})]
      [] m = "add_mylist_item" ->
            [mylist_id : Ids, item_id : {"sm9", "sm9&x=1"}]
      [] m = "remove_mylist_items" ->
            [mylist_id : Ids, item_ids : SeqsUpTo({"sm9", "sm10"}, MaxItems)]
      [] m = "create_mylist" ->
            [name : Texts, description : Opt({"d"}), is_public : Opt(BOOLEAN),
             default_sort_key : Opt({"title"}), default_sort_order : Opt({"asc"})]
      [] m = "get_own_series" ->
            [series_id : Ids, page_size : Opt({50}), page : Opt({2})]
      [] m = "get_recommendations" ->
            [recipe_id : Opt({"video_top_recommend"}), video_id : Opt({"sm9"}),
             site : {None}, limit : Opt({0, 10}), with_reason : Opt(BOOLEAN),
             sensitive_contents : Opt({"mask"}), recipe_version : Opt({1})]
      [] m = "get_following_activities" ->
            [endpoint : Opt({"video"}), context : Opt({"my_timeline"}),
             cursor : Opt({"c1", "c&context=x"})]

\* the call of method m with every optional parameter left out
DefaultArgsOf ==
    [m \in Methods |->
        CASE m = "search_videos_by_keyword" ->
                [keyword |-> "test", sort_key |-> None, sort_order |-> None,
                 page_size |-> None, page |-> None,
                 sensitive_content |-> None, channel_video_listing_status |-> None,
                 allow_future_contents |-> None, search_by_user |-> None,
                 min_registered_at |-> None, max_registered_at |-> None,
                 max_duration |-> None]
          [] m = "get_facet_by_keyword" ->
                [keyword |-> "test", sort_key |-> None, sort_order |-> None,
                 sensitive_content |-> None, channel_video_listing_status |-> None,
                 allow_future_contents |-> None, search_by_user |-> None,
                 min_registered_at |-> None, max_registered_at |-> None,
                 max_duration |-> None]
          [] m = "search_videos_by_tag" ->
                [tag |-> "test", sort_key |-> None, sort_order |-> None,
                 page_size |-> None, page |-> None,
                 sensitive_content |-> None, channel_video_listing_status |-> None,
                 allow_future_contents |-> None, search_by_user |-> None,
                 min_registered_at |-> None, max_registered_at |-> None,
                 max_duration |-> None]
          [] m = "search_facet_by_tag" ->
                [tag |-> "test", sort_key |-> None, sort_order |-> None,
                 sensitive_content |-> None, channel_video_listing_status |-> None,
                 allow_future_contents |-> None, search_by_user |-> None,
                 min_registered_at |-> None, max_registered_at |-> None,
                 max_duration |-> None]
          [] m = "search_lists" ->
                [keyword |-> "test", sort_key |-> None, types |-> None,
                 page_size |-> None, page |-> None]
          [] m = "search_videos_snapshot" ->
                [q |-> "test", targets |-> <<"title">>, _sort |-> "viewCounter",
                 fields |-> None, filters |-> None, json_filter |-> None,
                 _sort_order |-> None, _offset |-> None, _limit |-> None,
                 _context |-> None]
          [] m \in {"get_user", "follow_user", "unfollow_user"} -> [user_id |-> "12"]
          [] m \in {"get_user_followers", "get_user_followings", "get_user_series"} ->
                [user_id |-> "12", page_size |-> None, page |-> None]
          [] m = "get_user_videos" ->
                [user_id |-> "12", sort_key |-> None, sort_order |-> None,
                 page_size |-> None, page |-> None, sensitive_contents |-> None]
          [] m = "get_user_mylists" -> [user_id |-> "12", sample_item_count |-> None]
          [] m = "get_own" -> [self |-> "UserClient"]
          [] m \in {"get_own_followers", "get_own_followings", "get_own_series_list"} ->
                [page_size |-> None, page |-> None]
          [] m = "get_own_videos" ->
                [sort_key |-> None, sort_order |-> None,
                 page_size |-> None, page |-> None, sensitive_contents |-> None]
          [] m = "get_own_mylist" -> [mylist_id |-> "12", page_size |-> None, page |-> None]
          [] m \in {"get_own_mylists", "get_own_following_mylists"} ->
                [sample_item_count |-> None]
          [] m = "add_mylist_item" -> [mylist_id |-> "12", item_id |-> "sm9"]
          [] m = "remove_mylist_items" -> [mylist_id |-> "12", item_ids |-> <<"sm9">>]
          [] m = "create_mylist" ->
                [name |-> "test", description |-> None, is_public |-> None,
                 default_sort_key |-> None, default_sort_order |-> None]
          [] m = "get_own_series" -> [series_id |-> "12", page_size |-> None, page |-> None]
          [] m = "get_recommendations" ->
                [recipe_id |-> None, video_id |-> None, site |-> None,
                 limit |-> None, with_reason |-> None, sensitive_contents |-> None,
                 recipe_version |-> None]
          [] m = "get_following_activities" ->
                [endpoint |-> None, context |-> None, cursor |-> None]]

DefaultArgs(m) == DefaultArgsOf[m]

\* the calls the caller makes: every method with its optional parameters
\* left out, and get_following_activities also with a cursor
InvokeArgsOf ==
    [m \in Methods |->
        IF m = "get_following_activities"
        THEN {DefaultArgsOf[m], [endpoint |-> None, context |-> None, cursor |-> Some("c1")]}
        ELSE {DefaultArgsOf[m]}]

(***************************************************************************)
(* Responses and their schemas (niconico/objects)                          *)
(*                                                                         *)
(* A JSON object is a record keyed by the JSON names; at the top of a      *)
(* body JSON null is JsonNull and a JSON array is JsonList(items).  A      *)
(* field value is a token (a scalar or a nested object) or, for a list     *)
(* field, a sequence of tokens.  A decoded model is a record keyed by the  *)
(* Python attribute names.                                                 *)
(***************************************************************************)
codes_ok == 200
codes_created == 201

JsonNull == [null |-> TRUE]
JsonList(items) == [list |-> items]

\* one field of a pydantic model: attribute, JSON alias, whether it must be
\* present, whether it is a list
F(attr, alias, required, list) ==
    [attr |-> attr, alias |-> alias, required |-> required, list |-> list]

\* the fields of the data classes, in declaration order
Schema(cls) ==
    CASE cls = "UserData" ->
            <<F("user", "user", TRUE, FALSE), F("relationships", "relationships", TRUE, FALSE)>>
      [] cls = "OwnUserData" -> <<F("user", "user", TRUE, FALSE)>>
      [] cls = "RelationshipUsersData" ->
            <<F("items", "items", TRUE, TRUE), F("summary", "summary", TRUE, FALSE)>>
      [] cls = "UserVideosData" ->
            <<F("items", "items", TRUE, TRUE), F("total_count", "totalCount", TRUE, FALSE)>>
      [] cls = "OwnVideosData" ->
            <<F("items", "items", TRUE, TRUE), F("total_count", "totalCount", TRUE, FALSE),
              F("total_item_count", "totalItemCount", TRUE, FALSE),
              F("limitation", "limitation", TRUE, FALSE)>>
      [] cls = "UserMylistsData" -> <<F("mylists", "mylists", TRUE, TRUE)>>
      [] cls = "FollowingMylistsData" ->
            <<F("follow_limit", "followLimit", TRUE, FALSE), F("mylists", "mylists", TRUE, TRUE)>>
      [] cls = "CreateMylistData" ->
            <<F("mylist_id", "mylistId", TRUE, FALSE), F("mylist", "mylist", TRUE, FALSE)>>
      [] cls = "MylistData" -> <<F("mylist", "mylist", TRUE, FALSE)>>
      [] cls = "SeriesData" ->
            <<F("detail", "detail", TRUE, FALSE), F("total_count", "totalCount", TRUE, FALSE),
              F("items", "items", TRUE, TRUE)>>
      [] cls = "UserSeriesData" ->
            <<F("total_count", "totalCount", TRUE, FALSE), F("items", "items", TRUE, TRUE)>>
      [] cls = "OwnSeriesData" ->
            <<F("total_count", "totalCount", TRUE, FALSE), F("items", "items", TRUE, TRUE),
              F("thumbnails", "thumbnails", TRUE, FALSE)>>
      [] cls = "RecommendData" ->
            <<F("recipe", "recipe", TRUE, FALSE), F("recommend_id", "recommendId", TRUE, FALSE),
              F("items", "items", TRUE, TRUE)>>
      [] cls = "FeedData" ->
            <<F("activities", "activities", TRUE, TRUE), F("code", "code", TRUE, FALSE),
              F("impression_id", "impressionId", TRUE, FALSE),
              F("next_cursor", "nextCursor", FALSE, FALSE)>>
      [] cls = "VideoSearchData" ->
            <<F("search_id", "searchId", TRUE, FALSE), F("keyword", "keyword", TRUE, FALSE),
              F("tag", "tag", TRUE, FALSE), F("genres", "genres", TRUE, TRUE),
              F("total_count", "totalCount", TRUE, FALSE), F("has_next", "hasNext", TRUE, FALSE),
              F("items", "items", TRUE, TRUE), F("additionals", "additionals", TRUE, FALSE)>>
      [] cls = "FacetData" -> <<F("items", "items", TRUE, TRUE)>>
      [] cls = "ListSearchData" ->
            <<F("search_id", "searchId", TRUE, FALSE), F("total_count", "totalCount", TRUE, FALSE),
              F("has_next", "hasNext", TRUE, FALSE), F("items", "items", TRUE, TRUE)>>
      [] cls = "NvAPIMeta" ->
            <<F("status", "status", TRUE, FALSE), F("error_code", "errorCode", FALSE, FALSE)>>
      [] cls = "SnapshotSearchMeta" ->
            <<F("status", "status", TRUE, FALSE), F("total_count", "totalCount", TRUE, FALSE),
              F("id_", "id", TRUE, FALSE), F("error_code", "errorCode", FALSE, FALSE),
              F("error_message", "errorMessage", FALSE, FALSE)>>

FieldsOf(cls) == {Schema(cls)[i] : i \in 1..Len(Schema(cls))}

\* pydantic accepts the object when every required alias is present
Validates(cls, obj) ==
    \A f \in FieldsOf(cls) : f.required => f.alias \in DOMAIN obj

\* the Python value of a missing optional field
PyNoneToken == "None"

\* cls(**obj) for an object that validates: attributes named by the class,
\* read from the aliases, a missing optional field taking its default None
Construct(cls, obj) ==
    [cls |-> cls,
     attrs |-> [a \in {f.attr : f \in FieldsOf(cls)} |->
                  LET f == CHOOSE g \in FieldsOf(cls) : g.attr = a
                  IN  IF f.alias \in DOMAIN obj THEN obj[f.alias] ELSE PyNoneToken]]

\* NvAPIResponse with data declared as T instead of T | None
NvAPIResponse_data_required(cls, json) ==
    IF \/ "meta" \notin DOMAIN json
       \/ ~Validates("NvAPIMeta", json.meta)
       \/ "data" \notin DOMAIN json
       \/ ~Validates(cls, json.data)
    THEN [error |-> "ValidationError", data |-> None]
    ELSE [error |-> "", data |-> Some(Construct(cls, json.data))]

\* NvAPIResponse[cls](**json): meta must validate; data is None or a cls
NvAPIResponse(cls, json) ==
    IF \/ "meta" \notin DOMAIN json
       \/ ~Validates("NvAPIMeta", json.meta)
       \/ "data" \notin DOMAIN json
    THEN [error |-> "ValidationError", data |-> None]
    ELSE IF json.data = JsonNull
    THEN [error |-> "", data |-> None]
    ELSE IF ~Validates(cls, json.data)
    THEN [error |-> "ValidationError", data |-> None]
    ELSE [error |-> "", data |-> Some(Construct(cls, json.data))]

\* SnapshotSearchResponse(**json): meta must validate and data must be a list
SnapshotSearchResponse(json) ==
    IF \/ "meta" \notin DOMAIN json
       \/ ~Validates("SnapshotSearchMeta", json.meta)
       \/ "data" \notin DOMAIN json
       \/ "list" \notin DOMAIN json.data
    THEN [error |-> "ValidationError", data |-> None]
    ELSE [error |-> "",
          data |-> Some([cls |-> "SnapshotSearchResponse",
                         attrs |-> [meta |-> Construct("SnapshotSearchMeta", json.meta),
                                    data |-> json.data.list]])]

\* FeedData(**json)
FeedData(json) ==
    IF ~Validates("FeedData", json)
    THEN [error |-> "ValidationError", data |-> None]
    ELSE [error |-> "", data |-> Some(Construct("FeedData", json))]

(***************************************************************************)
(* How an invocation ends                                                  *)
(***************************************************************************)
PyNone == [py |-> "None"]
PyList(items) == [py |-> "list", items |-> items]
PyBool(b) == [py |-> "bool", b |-> b]
PyStr(s) == [py |-> "str", s |-> s]
PyModel(m) == [py |-> "model", cls |-> m.cls, attrs |-> m.attrs]
PyNested(token) == [py |-> "nested", token |-> token]

\* read_body: whether res.json() was evaluated
Return(v, read_body) ==
    [kind |-> "return", value |-> v, error |-> "", read_body |-> read_body]
Raise(e, read_body) ==
    [kind |-> "raise", value |-> PyNone, error |-> e, read_body |-> read_body]
NoOutcome == [kind |-> "none", value |-> PyNone, error |-> "", read_body |-> FALSE]

\* data.field as a Python value
Attr(model, field) ==
    IF \E f \in FieldsOf(model.cls) : f.attr = field /\ f.list
    THEN PyList(model.attrs[field])
    ELSE PyNested(model.attrs[field])

\* EnvelopeReturn without the status test: the body is decoded whatever the
\* status
EnvelopeReturn_any_status(res, cls, field, absent) ==
    IF res.body.kind # "json" THEN Raise("JSONDecodeError", TRUE)
    ELSE LET res_cls == NvAPIResponse(cls, res.body.json)
         IN  IF res_cls.error # "" THEN Raise(res_cls.error, TRUE)
             ELSE IF res_cls.data # None
             THEN IF field = "" THEN Return(PyModel(Val(res_cls.data)), TRUE)
                  ELSE Return(Attr(Val(res_cls.data), field), TRUE)
             ELSE Return(absent, TRUE)

\* the tail every envelope method shares:
\*   if res.status_code == requests.codes.ok:
\*       res_cls = NvAPIResponse[cls](**res.json())
\*       if res_cls.data is not None:
\*           return res_cls.data            (field = "")
\*           return res_cls.data.<field>    (otherwise)
\*   return absent
EnvelopeReturn(res, cls, field, absent) ==
    IF res.status_code = codes_ok
    THEN IF res.body.kind # "json" THEN Raise("JSONDecodeError", TRUE)
         ELSE LET res_cls == NvAPIResponse(cls, res.body.json)
              IN  IF res_cls.error # "" THEN Raise(res_cls.error, TRUE)
                  ELSE IF res_cls.data # None
                  THEN IF field = "" THEN Return(PyModel(Val(res_cls.data)), TRUE)
                       ELSE Return(Attr(Val(res_cls.data), field), TRUE)
                  ELSE Return(absent, TRUE)
    ELSE Return(absent, FALSE)

get_user_return(res) == EnvelopeReturn(res, "UserData", "user", PyNone)
get_user_followers_return(res) == EnvelopeReturn(res, "RelationshipUsersData", "", PyNone)
get_user_followings_return(res) == EnvelopeReturn(res, "RelationshipUsersData", "", PyNone)
get_user_videos_return(res) == EnvelopeReturn(res, "UserVideosData", "", PyNone)
get_user_mylists_return(res) == EnvelopeReturn(res, "UserMylistsData", "mylists", PyList(<<>>))
get_user_series_return(res) == EnvelopeReturn(res, "UserSeriesData", "items", PyList(<<>>))
get_own_return(res) == EnvelopeReturn(res, "OwnUserData", "user", PyNone)
get_own_followers_return(res) == EnvelopeReturn(res, "RelationshipUsersData", "", PyNone)
get_own_followings_return(res) == EnvelopeReturn(res, "RelationshipUsersData", "", PyNone)
follow_user_return(res) == Return(PyBool(res.status_code = codes_ok), FALSE)
unfollow_user_return(res) == Return(PyBool(res.status_code = codes_ok), FALSE)
get_own_videos_return(res) == EnvelopeReturn(res, "OwnVideosData", "", PyNone)
get_own_mylist_return(res) == EnvelopeReturn(res, "MylistData", "mylist", PyNone)
get_own_mylists_return(res) == EnvelopeReturn(res, "UserMylistsData", "mylists", PyList(<<>>))
\* add_mylist_item_return comparing with requests.codes.ok
add_mylist_item_return_ok(res) == Return(PyBool(res.status_code = codes_ok), FALSE)
add_mylist_item_return(res) == Return(PyBool(res.status_code = codes_created), FALSE)
remove_mylist_items_return(res) == Return(PyBool(res.status_code = codes_ok), FALSE)
create_mylist_return(res) == EnvelopeReturn(res, "CreateMylistData", "", PyNone)
get_own_series_return(res) == EnvelopeReturn(res, "SeriesData", "", PyNone)
get_own_series_list_return(res) == EnvelopeReturn(res, "OwnSeriesData", "items", PyList(<<>>))
get_own_following_mylists_return(res) ==
    EnvelopeReturn(res, "FollowingMylistsData", "", PyNone)
get_recommendations_return(res) == EnvelopeReturn(res, "RecommendData", "", PyNone)

\* get_following_activities_return decoding the {meta, data} envelope
get_following_activities_return_enveloped(res) ==
    EnvelopeReturn(res, "FeedData", "", PyNone)

\*   if res.status_code == requests.codes.ok:
\*       return FeedData(**res.json())
\*   return None
get_following_activities_return(res) ==
    IF res.status_code = codes_ok
    THEN IF res.body.kind # "json" THEN Raise("JSONDecodeError", TRUE)
         ELSE LET feed == FeedData(res.body.json)
              IN  IF feed.error # "" THEN Raise(feed.error, TRUE)
                  ELSE Return(PyModel(Val(feed.data)), TRUE)
    ELSE Return(PyNone, FALSE)

search_videos_by_keyword_return(res) == EnvelopeReturn(res, "VideoSearchData", "", PyNone)
search_videos_by_tag_return(res) == EnvelopeReturn(res, "VideoSearchData", "", PyNone)
get_facet_by_keyword_return(res) == EnvelopeReturn(res, "FacetData", "items", PyList(<<>>))
search_facet_by_tag_return(res) == EnvelopeReturn(res, "FacetData", "items", PyList(<<>>))
search_lists_return(res) == EnvelopeReturn(res, "ListSearchData", "", PyNone)

search_videos_snapshot_return(res) ==
    IF res.status_code = codes_ok
    THEN IF res.body.kind # "json" THEN Raise("JSONDecodeError", TRUE)
         ELSE LET response == SnapshotSearchResponse(res.body.json)
              IN  IF response.error # "" THEN Raise(response.error, TRUE)
                  ELSE Return(PyModel(Val(response.data)), TRUE)
    ELSE Return(PyNone, FALSE)

\* what method m does with the response res
MethodReturn(m, res) ==
    CASE m = "get_user" -> get_user_return(res)
      [] m = "get_user_followers" -> get_user_followers_return(res)
      [] m = "get_user_followings" -> get_user_followings_return(res)
      [] m = "get_user_videos" -> get_user_videos_return(res)
      [] m = "get_user_mylists" -> get_user_mylists_return(res)
      [] m = "get_user_series" -> get_user_series_return(res)
      [] m = "get_own" -> get_own_return(res)
      [] m = "get_own_followers" -> get_own_followers_return(res)
      [] m = "get_own_followings" -> get_own_followings_return(res)
      [] m = "follow_user" -> follow_user_return(res)
      [] m = "unfollow_user" -> unfollow_user_return(res)
      [] m = "get_own_videos" -> get_own_videos_return(res)
      [] m = "get_own_mylist" -> get_own_mylist_return(res)
      [] m = "get_own_mylists" -> get_own_mylists_return(res)
      [] m = "add_mylist_item" -> add_mylist_item_return(res)
      [] m = "remove_mylist_items" -> remove_mylist_items_return(res)
      [] m = "create_mylist" -> create_mylist_return(res)
      [] m = "get_own_series" -> get_own_series_return(res)
      [] m = "get_own_series_list" -> get_own_series_list_return(res)
      [] m = "get_own_following_mylists" -> get_own_following_mylists_return(res)
      [] m = "get_recommendations" -> get_recommendations_return(res)
      [] m = "get_following_activities" -> get_following_activities_return(res)
      [] m = "search_videos_by_keyword" -> search_videos_by_keyword_return(res)
      [] m = "search_videos_by_tag" -> search_videos_by_tag_return(res)
      [] m = "get_facet_by_keyword" -> get_facet_by_keyword_return(res)
      [] m = "search_facet_by_tag" -> search_facet_by_tag_return(res)
      [] m = "search_lists" -> search_lists_return(res)
      [] m = "search_videos_snapshot" -> search_videos_snapshot_return(res)

(***************************************************************************)
(* The session: the login gate and the transport                           *)
(***************************************************************************)
\* LoginRequired with the decorator missing on create_mylist
LoginRequired_without_create_mylist ==
    {"get_own", "get_own_followers", "get_own_followings", "follow_user",
     "unfollow_user", "get_own_videos", "get_own_mylist", "get_own_mylists",
     "add_mylist_item", "remove_mylist_items", "get_own_series",
     "get_own_series_list", "get_own_following_mylists", "get_following_activities"}

\* the methods decorated with @login_required()
LoginRequired ==
    {"get_own", "get_own_followers", "get_own_followings", "follow_user",
     "unfollow_user", "get_own_videos", "get_own_mylist", "get_own_mylists",
     "add_mylist_item", "remove_mylist_items", "create_mylist", "get_own_series",
     "get_own_series_list", "get_own_following_mylists", "get_following_activities"}

\* the gate of niconico.decorators: the decorated method runs only on an
\* authenticated session, otherwise the call ends with the auth-required error
login_required(authenticated) == authenticated

\* NetworkCalls with the request sent a second time
NetworkCalls_retry(m, a) == <<BuildRequest(m, a), BuildRequest(m, a)>>

\* the network calls the body of method m makes: one, through the session
\* (self.niconico.get/post/delete) or, for the snapshot search, requests.get
NetworkCalls(m, a) == <<BuildRequest(m, a)>>

\* the response class each endpoint answers with
ResponseClass(m) ==
    CASE m \in {"get_user"} -> "UserData"
      [] m \in {"get_user_followers", "get_user_followings",
                "get_own_followers", "get_own_followings"} -> "RelationshipUsersData"
      [] m = "get_user_videos" -> "UserVideosData"
      [] m \in {"get_user_mylists", "get_own_mylists"} -> "UserMylistsData"
      [] m = "get_user_series" -> "UserSeriesData"
      [] m = "get_own" -> "OwnUserData"
      [] m = "get_own_videos" -> "OwnVideosData"
      [] m = "get_own_mylist" -> "MylistData"
      [] m = "create_mylist" -> "CreateMylistData"
      [] m = "get_own_series" -> "SeriesData"
      [] m = "get_own_series_list" -> "OwnSeriesData"
      [] m = "get_own_following_mylists" -> "FollowingMylistsData"
      [] m = "get_recommendations" -> "RecommendData"
      [] m = "get_following_activities" -> "FeedData"
      [] m \in {"search_videos_by_keyword", "search_videos_by_tag"} -> "VideoSearchData"
      [] m \in {"get_facet_by_keyword", "search_facet_by_tag"} -> "FacetData"
      [] m = "search_lists" -> "ListSearchData"
      [] m = "search_videos_snapshot" -> "SnapshotSearchResponse"
      [] OTHER -> "UserData"

(***************************************************************************)
(* What the remote service may answer                                      *)
(***************************************************************************)
MaxCalls == 2       \* invocations in one behaviour

Statuses == {200, 201, 204, 404, 500}

ItemLists == <<<<>>, <<"item1", "item2">>>>

\* a JSON object of class cls: every required field, the optional ones when
\* full, its list fields holding items
Payload(cls, items, full) ==
    [al \in {f.alias : f \in {g \in FieldsOf(cls) : g.required \/ full}} |->
        IF \E f \in FieldsOf(cls) : f.alias = al /\ f.list
        THEN items ELSE al \o "#1"]

\* the same object without its first required field
BadPayload(cls) ==
    LET p == Payload(cls, <<>>, FALSE)
    IN  [al \in DOMAIN p \ {Schema(cls)[1].alias} |-> p[al]]

NotJson == [kind |-> "not_json", json |-> JsonNull]
Json(j) == [kind |-> "json", json |-> j]

OkMeta == [status |-> "200"]
ErrorMeta == [status |-> "400", errorCode |-> "INVALID_PARAMETER"]
OkSnapshotMeta == [status |-> "200", totalCount |-> "2", id |-> "id#1"]
ErrorSnapshotMeta ==
    [status |-> "400", errorCode |-> "QUERY_PARSE_ERROR", errorMessage |-> "query parse error"]

\* the bodies the model answers method m with
Bodies(m) ==
    LET cls == ResponseClass(m)
    IN  IF m = "search_videos_snapshot"
        THEN << NotJson,
                Json([meta |-> OkSnapshotMeta, data |-> JsonList(ItemLists[1])]),
                Json([meta |-> OkSnapshotMeta, data |-> JsonList(ItemLists[2])]),
                Json([meta |-> OkSnapshotMeta, data |-> JsonNull]),
                Json([meta |-> ErrorSnapshotMeta, data |-> JsonList(ItemLists[1])]),
                Json([data |-> JsonList(ItemLists[2])]) >>
        ELSE IF m = "get_following_activities"
        THEN << NotJson,
                Json(Payload(cls, ItemLists[1], FALSE)),
                Json(Payload(cls, ItemLists[2], TRUE)),
                Json(BadPayload(cls)),
                Json([meta |-> OkMeta, data |-> Payload(cls, ItemLists[2], TRUE)]) >>
        ELSE << NotJson,
                Json([meta |-> OkMeta, data |-> JsonNull]),
                Json([meta |-> OkMeta, data |-> Payload(cls, ItemLists[1], FALSE)]),
                Json([meta |-> OkMeta, data |-> Payload(cls, ItemLists[2], TRUE)]),
                Json([meta |-> OkMeta, data |-> BadPayload(cls)]),
                Json([meta |-> OkMeta, data |-> JsonList(ItemLists[2])]),
                Json([meta |-> ErrorMeta, data |-> JsonNull]),
                Json([meta |-> ErrorMeta, data |-> Payload(cls, ItemLists[2], FALSE)]),
                Json([data |-> Payload(cls, ItemLists[2], FALSE)]) >>

NoCall == [method |-> "none", args |-> <<>>]
NoResponse == [status_code |-> 0, body |-> [kind |-> "none", json |-> JsonNull]]

\* what __init__ leaves in the clients: UserClient holds the session and its
\* search client, VideoSearchClient the session
ClientFields ==
    [user |-> [niconico |-> "NicoNico", search |-> "UserSearchClient"],
     video_search |-> [niconico |-> "NicoNico"]]

\* the callers that share the client and its session
Callers == {"t1", "t2"}

\* a caller with no invocation in progress
IdleThread ==
    [pc |-> "idle", call |-> NoCall, req |-> NoRequest, resp |-> NoResponse,
     outcome |-> NoOutcome]

(***************************************************************************)
(* The invocation of an endpoint method                                    *)
(***************************************************************************)
Init ==
    /\ loggedIn \in BOOLEAN
    /\ pc = "idle"
    /\ call = NoCall
    /\ req = NoRequest
    /\ calls = 0
    /\ passed = 0
    /\ sent = 0
    /\ resp = NoResponse
    /\ outcome = NoOutcome
    /\ client = ClientFields
    /\ threads = [c \in Callers |-> IdleThread]

\* the caller invokes method m: the gate, the query, the request
Invoke(m, a) ==
    /\ pc = "idle"
    /\ calls < MaxCalls
    /\ call' = [method |-> m, args |-> a]
    /\ calls' = calls + 1
    /\ resp' = NoResponse
    /\ IF m \in LoginRequired /\ ~login_required(loggedIn)
       THEN /\ pc' = "done"
            /\ outcome' = Raise("LoginRequiredError", FALSE)
            /\ req' = NoRequest
            /\ UNCHANGED <<passed, sent>>
       ELSE /\ pc' = "waiting"
            /\ outcome' = NoOutcome
            /\ passed' = passed + 1
            /\ sent' = sent + Len(NetworkCalls(m, a))
            /\ req' = NetworkCalls(m, a)[Len(NetworkCalls(m, a))]
    /\ UNCHANGED <<loggedIn, client, threads>>

\* the transport hands back a response and the method returns or raises
Respond(status, body) ==
    /\ pc = "waiting"
    /\ resp' = [status_code |-> status, body |-> body]
    /\ outcome' = MethodReturn(call.method, resp')
    /\ pc' = "done"
    /\ UNCHANGED <<loggedIn, call, req, calls, passed, sent, client, threads>>

\* TransportError caught by the method, which then returns None
TransportError_masked ==
    /\ pc = "waiting"
    /\ outcome' = Return(PyNone, FALSE)
    /\ pc' = "done"
    /\ UNCHANGED <<loggedIn, call, req, calls, passed, sent, resp, client, threads>>

\* the transport raises (connection error, timeout): nothing catches it
TransportError ==
    /\ pc = "waiting"
    /\ outcome' = Raise("ConnectionError", FALSE)
    /\ pc' = "done"
    /\ UNCHANGED <<loggedIn, call, req, calls, passed, sent, resp, client, threads>>

\* the caller takes the result; the locals of the invocation are gone
Finish ==
    /\ pc = "done"
    /\ pc' = "idle"
    /\ call' = NoCall
    /\ req' = NoRequest
    /\ resp' = NoResponse
    /\ outcome' = NoOutcome
    /\ UNCHANGED <<loggedIn, calls, passed, sent, client, threads>>

Next ==
    \/ \E m \in Methods : \E a \in InvokeArgsOf[m] : Invoke(m, a)
    \/ \E s \in Statuses : \E i \in 1..Len(Bodies(call.method)) :
            Respond(s, Bodies(call.method)[i])
    \/ TransportError
    \/ Finish

Spec == Init /\ [][Next]_vars

(***************************************************************************)
(* Query building alone: the arguments are drawn by the initial state and  *)
(* the one step builds the request.                                        *)
(***************************************************************************)
QueryInit ==
    /\ loggedIn = TRUE
    /\ pc = "args"
    /\ \E m \in Methods : \E a \in QueryArgs(m) : call = [method |-> m, args |-> a]
    /\ req = NoRequest
    /\ calls = 0
    /\ passed = 0
    /\ sent = 0
    /\ resp = NoResponse
    /\ outcome = NoOutcome
    /\ client = ClientFields
    /\ threads = [c \in Callers |-> IdleThread]

BuildQuery ==
    /\ pc = "args"
    /\ pc' = "built"
    /\ req' = BuildRequest(call.method, call.args)
    /\ UNCHANGED <<loggedIn, call, calls, passed, sent, resp, outcome, client, threads>>

QueryNext == BuildQuery

QuerySpec == QueryInit /\ [][QueryNext]_vars

(***************************************************************************)
(* The functions of niconico/utils.py alone: the arguments are drawn by    *)
(* the initial state and the one step applies the function.  For           *)
(* add_optional_param, call.args.query is the dict as passed and req.query *)
(* the same dict after the call.                                           *)
(***************************************************************************)
MaxUrlLen == 4      \* characters of a url

UrlChars == {"s", "m", "n", "o", "/", "1", "2"}

RECURSIVE UrlsUpTo(_)
UrlsUpTo(n) ==
    IF n = 0 THEN {""} ELSE {""} \cup {c \o u : c \in UrlChars, u \in UrlsUpTo(n - 1)}

\* the query dicts handed to add_optional_param
UtilQueries ==
    { <<>>,
      << <<"limit", "1">> >>,
      << <<"page", "2">> >>,
      << <<"limit", "1">>, <<"page", "2">> >>,
      << <<"page", "2">>, <<"limit", "1">> >> }

UtilInit ==
    /\ loggedIn = TRUE
    /\ pc = "args"
    /\ \/ \E u \in UrlsUpTo(MaxUrlLen) :
              call = [method |-> "extract_video_id_from_url", args |-> [url |-> u]]
       \/ \E q \in UtilQueries : \E k \in {"limit", "cursor"} : \E v \in Opt({"", "0", "x"}) :
              call = [method |-> "add_optional_param",
                      args |-> [query |-> q, key |-> k, value |-> v, type |-> "str"]]
       \/ \E q \in UtilQueries : \E k \in {"limit", "cursor"} : \E v \in Opt({0, 25}) :
              call = [method |-> "add_optional_param",
                      args |-> [query |-> q, key |-> k, value |-> v, type |-> "int"]]
    /\ req = NoRequest
    /\ calls = 0
    /\ passed = 0
    /\ sent = 0
    /\ resp = NoResponse
    /\ outcome = NoOutcome
    /\ client = ClientFields
    /\ threads = [c \in Callers |-> IdleThread]

ExtractVideoId ==
    /\ pc = "args"
    /\ call.method = "extract_video_id_from_url"
    /\ pc' = "returned"
    /\ outcome' = LET id == extract_video_id_from_url(call.args.url)
                  IN  IF IsNone(id) THEN Return(PyNone, FALSE)
                      ELSE Return(PyStr(Val(id)), FALSE)
    /\ UNCHANGED <<loggedIn, call, req, calls, passed, sent, resp, client, threads>>

AddOptionalParam ==
    /\ pc = "args"
    /\ call.method = "add_optional_param"
    /\ pc' = "returned"
    /\ req' = [NoRequest EXCEPT !.query =
                  IF call.args.type = "int"
                  THEN add_optional_param_int(call.args.query, call.args.key, call.args.value)
                  ELSE add_optional_param(call.args.query, call.args.key, call.args.value)]
    /\ outcome' = Return(PyNone, FALSE)
    /\ UNCHANGED <<loggedIn, call, calls, passed, sent, resp, client, threads>>

UtilNext ==
    \/ ExtractVideoId
    \/ AddOptionalParam

UtilSpec == UtilInit /\ [][UtilNext]_vars

(***************************************************************************)
(* Callers that share one client and one session.  A caller prepares its   *)
(* arguments and calls a method (ThreadCall); the method runs up to its    *)
(* transport call (ThreadEnter), receives its response or a transport      *)
(* error, and returns; the steps of different callers interleave.          *)
(***************************************************************************)
\* the argument records the callers pass to method m: the defaults and, for
\* the methods that take a list or a mapping, one call with those supplied
SharedArgsOf ==
    [m \in Methods |->
        IF m = "search_videos_snapshot"
        THEN {DefaultArgsOf[m],
              [q |-> "R&B", targets |-> <<"title", "tags">>, _sort |-> "viewCounter",
               fields |-> Some(<<"contentId", "title">>),
               filters |-> Some(<<[field |-> "viewCounter", kind |-> "dict",
                                   dict |-> << <<"gt", 100>> >>, list |-> <<>>],
                                  [field |-> "genre", kind |-> "list",
                                   dict |-> <<>>, list |-> <<"game">>]>>),
               json_filter |-> Some(<< <<"type", "equal">>, <<"value", "a&b">> >>),
               _sort_order |-> Some("asc"), _offset |-> None, _limit |-> None,
               _context |-> None]}
        ELSE IF m = "search_lists"
        THEN {DefaultArgsOf[m],
              [keyword |-> "test", sort_key |-> None,
               types |-> Some(<<"mylist", "series">>),
               page_size |-> None, page |-> None]}
        ELSE IF m = "remove_mylist_items"
        THEN {DefaultArgsOf[m], [mylist_id |-> "12", item_ids |-> <<"sm9", "sm10">>]}
        ELSE IF m = "get_recommendations"
        THEN {DefaultArgsOf[m],
              [recipe_id |-> Some("video_top_recommend"), video_id |-> Some("sm9"),
               site |-> None, limit |-> None, with_reason |-> Some(TRUE),
               sensitive_contents |-> None, recipe_version |-> None]}
        ELSE {DefaultArgsOf[m]}]

\* the answers a shared-client invocation may get
SharedStatuses == {200, 404}
SharedBodyIndexes == {1, 3}

\* caller c calls method m with the argument objects a
ThreadCall(c, m, a) ==
    /\ threads[c].pc = "idle"
    /\ threads' = [threads EXCEPT ![c] =
                      [pc |-> "called", call |-> [method |-> m, args |-> a],
                       req |-> NoRequest, resp |-> NoResponse, outcome |-> NoOutcome]]
    /\ UNCHANGED <<loggedIn, pc, call, req, calls, passed, sent, resp, outcome, client>>

\* ThreadEnter with the defaults written back into the caller's arguments
ThreadEnter_writing_defaults(c) ==
    LET t == threads[c]
        m == t.call.method
        a == DefaultArgs(m)
    IN  /\ t.pc = "called"
        /\ threads' = [threads EXCEPT ![c] =
              IF m \in LoginRequired /\ ~login_required(loggedIn)
              THEN [t EXCEPT !.pc = "done", !.outcome = Raise("LoginRequiredError", FALSE)]
              ELSE [t EXCEPT !.pc = "waiting", !.call = [method |-> m, args |-> a],
                             !.req = NetworkCalls(m, a)[Len(NetworkCalls(m, a))]]]
        /\ UNCHANGED <<loggedIn, pc, call, req, calls, passed, sent, resp, outcome, client>>

\* the method runs up to its transport call: the gate, the query, the
\* request; it reads its arguments and self.niconico and writes only locals
ThreadEnter(c) ==
    LET t == threads[c]
        m == t.call.method
        a == t.call.args
    IN  /\ t.pc = "called"
        /\ threads' = [threads EXCEPT ![c] =
              IF m \in LoginRequired /\ ~login_required(loggedIn)
              THEN [t EXCEPT !.pc = "done", !.outcome = Raise("LoginRequiredError", FALSE)]
              ELSE [t EXCEPT !.pc = "waiting",
                             !.req = NetworkCalls(m, a)[Len(NetworkCalls(m, a))]]]
        /\ UNCHANGED <<loggedIn, pc, call, req, calls, passed, sent, resp, outcome, client>>

\* ThreadRespond with the response kept in a field of the client: every
\* invocation in flight reads it
ThreadRespond_shared(c, status, body) ==
    /\ threads[c].pc = "waiting"
    /\ threads' = [d \in Callers |->
          IF threads[d].pc = "waiting"
          THEN [threads[d] EXCEPT
                  !.pc = "done",
                  !.resp = [status_code |-> status, body |-> body],
                  !.outcome = MethodReturn(threads[d].call.method,
                                           [status_code |-> status, body |-> body])]
          ELSE threads[d]]
    /\ UNCHANGED <<loggedIn, pc, call, req, calls, passed, sent, resp, outcome, client>>

\* the transport hands the response of c's request back to c's invocation,
\* which returns or raises
ThreadRespond(c, status, body) ==
    /\ threads[c].pc = "waiting"
    /\ threads' = [threads EXCEPT ![c] =
          [threads[c] EXCEPT
              !.pc = "done",
              !.resp = [status_code |-> status, body |-> body],
              !.outcome = MethodReturn(threads[c].call.method,
                                       [status_code |-> status, body |-> body])]]
    /\ UNCHANGED <<loggedIn, pc, call, req, calls, passed, sent, resp, outcome, client>>

\* the transport call of c's invocation raises
ThreadTransportError(c) ==
    /\ threads[c].pc = "waiting"
    /\ threads' = [threads EXCEPT ![c] =
          [threads[c] EXCEPT !.pc = "done", !.outcome = Raise("ConnectionError", FALSE)]]
    /\ UNCHANGED <<loggedIn, pc, call, req, calls, passed, sent, resp, outcome, client>>

\* caller c takes its result
ThreadFinish(c) ==
    /\ threads[c].pc = "done"
    /\ threads' = [threads EXCEPT ![c] = IdleThread]
    /\ UNCHANGED <<loggedIn, pc, call, req, calls, passed, sent, resp, outcome, client>>

SharedNext ==
    \E c \in Callers :
        \/ \E m \in Methods : \E a \in SharedArgsOf[m] : ThreadCall(c, m, a)
        \/ ThreadEnter(c)
        \/ \E s \in SharedStatuses : \E i \in SharedBodyIndexes :
                ThreadRespond(c, s, Bodies(threads[c].call.method)[i])
        \/ ThreadTransportError(c)
        \/ ThreadFinish(c)

SharedSpec == Init /\ [][SharedNext]_vars

(***************************************************************************)
(* Reading a URL the way its receiver does                                 *)
(***************************************************************************)
\* the first position >= i at which character c stands in s, 0 if none
RECURSIVE IndexFrom(_, _, _)
IndexFrom(s, c, i) ==
    IF i > Len(s) THEN 0
    ELSE IF SubSeq(s, i, i) = c THEN i
    ELSE IndexFrom(s, c, i + 1)

\* s.split(c)
RECURSIVE SplitFrom(_, _, _)
SplitFrom(s, c, i) ==
    LET j == IndexFrom(s, c, i)
    IN  IF j = 0 THEN <<SubSeq(s, i, Len(s))>>
        ELSE <<SubSeq(s, i, j - 1)>> \o SplitFrom(s, c, j + 1)

Split(s, c) == SplitFrom(s, c, 1)

\* the query string of a URL: what follows the first "?"
QueryOf(url) ==
    LET j == IndexFrom(url, "?", 1)
    IN  IF j = 0 THEN "" ELSE SubSeq(url, j + 1, Len(url))

\* the key=value pairs of a query string
Pairs(qs) == IF qs = "" THEN <<>> ELSE Split(qs, "&")

\* the key of one pair: what precedes its first "="
PairKey(pair) ==
    LET j == IndexFrom(pair, "=", 1)
    IN  IF j = 0 THEN pair ELSE SubSeq(pair, 1, j - 1)

\* the keys of a query string, in order
ParsedKeys(qs) == [i \in 1..Len(Pairs(qs)) |-> PairKey(Pairs(qs)[i])]

Count(seq, x) == Cardinality({i \in 1..Len(seq) : seq[i] = x})

\* whether text holds one of the characters reserved in a query string
HasReserved(text) ==
    \E c \in {"&", "=", "#", " ", "?"} : IndexFrom(text, c, 1) # 0

(***************************************************************************)
(* Properties of the invocation                                            *)
(***************************************************************************)
Done == pc = "done"

\* the methods that decode a response: all but the four that answer with a
\* bool computed from the status alone
DecodingMethods ==
    Methods \ {"follow_user", "unfollow_user", "add_mylist_item", "remove_mylist_items"}

\* the methods that decode the {meta, data} envelope of the primary API
EnvelopeMethods == DecodingMethods \ {"get_following_activities", "search_videos_snapshot"}

ListReturning ==
    {"get_user_mylists", "get_user_series", "get_own_mylists", "get_own_series_list",
     "get_facet_by_keyword", "search_facet_by_tag"}

\* the absent value of method m: the empty list, or None
AbsentValue(m) == IF m \in ListReturning THEN PyList(<<>>) ELSE PyNone

Responded == resp.status_code # 0
SuccessStatus == Responded /\ resp.status_code >= 200 /\ resp.status_code <= 299
FailureStatus == Responded /\ ~SuccessStatus

\* the body is a {meta, data} envelope whose meta is well formed
WellFormedEnvelope ==
    /\ resp.body.kind = "json"
    /\ "meta" \in DOMAIN resp.body.json
    /\ "data" \in DOMAIN resp.body.json
    /\ Validates("NvAPIMeta", resp.body.json.meta)

NullData == WellFormedEnvelope /\ resp.body.json.data = JsonNull

\* data is an object of the class the method expects
PopulatedData ==
    /\ WellFormedEnvelope
    /\ resp.body.json.data # JsonNull
    /\ Validates(ResponseClass(call.method), resp.body.json.data)

C3_Designated(m) ==
    CASE m \in {"get_user", "get_own"} -> "user"
      [] m = "get_own_mylist" -> "mylist"
      [] m \in {"get_user_mylists", "get_own_mylists"} -> "mylists"
      [] m \in {"get_user_series", "get_own_series_list",
                "get_facet_by_keyword", "search_facet_by_tag"} -> "items"
      [] OTHER -> ""

\* data decoded directly against the schema of method m, or its designated
\* field
C3_Decoded(m, data) ==
    LET d == Construct(ResponseClass(m), data)
    IN  IF C3_Designated(m) = "" THEN PyModel(d) ELSE Attr(d, C3_Designated(m))

\* C3: an envelope method answered with a success status and populated data
\* returns the value decoded from data (or its designated field), and that
\* value is not the method's absent value.
C3_PopulatedYieldsData ==
    (Done /\ call.method \in EnvelopeMethods /\ SuccessStatus /\ PopulatedData)
        => /\ outcome.kind = "return"
           /\ outcome.value = C3_Decoded(call.method, resp.body.json.data)
           /\ outcome.value # AbsentValue(call.method)

\* the operations specified as requiring authentication
C4_AuthOps ==
    {"get_own", "get_own_followers", "get_own_followings", "follow_user",
     "unfollow_user", "get_own_videos", "get_own_mylist", "get_own_mylists",
     "add_mylist_item", "remove_mylist_items", "create_mylist", "get_own_series",
     "get_own_series_list", "get_own_following_mylists", "get_following_activities"}

\* C4: invoking an operation that requires authentication on a session that
\* is not authenticated ends the invocation at once with the auth-required
\* error, and no request is issued: the count of requests does not move, the
\* invocation holds no request and receives no response.
C4_AuthRequiredNoRequest ==
    /\ [][(pc = "idle" /\ pc' # "idle" /\ call'.method \in C4_AuthOps /\ ~loggedIn)
            => /\ pc' = "done"
               /\ outcome' = Raise("LoginRequiredError", FALSE)
               /\ sent' = sent
               /\ ~req'.issued]_vars
    /\ []((pc # "idle" /\ call.method \in C4_AuthOps /\ ~loggedIn)
            => (pc = "done" /\ ~req.issued /\ ~Responded))

C4_Witness ==
    /\ Done
    /\ ~loggedIn
    /\ call.method = "create_mylist"
    /\ outcome.kind = "raise"
    /\ outcome.error = "LoginRequiredError"
    /\ ~req.issued
    /\ calls = 2
    /\ sent = 0

\* C5: the requests issued are as many as the invocations that passed the
\* gate; a step that passes the gate issues one request and no other step
\* (a response of any status or body, a transport error, the return) issues
\* any.
C5_OneRequestPerInvocation ==
    /\ [](sent = passed)
    /\ [][IF pc = "idle" /\ pc' = "waiting"
          THEN sent' = sent + 1 /\ passed' = passed + 1
          ELSE sent' = sent /\ passed' = passed]_vars

C5_Witness ==
    /\ Done
    /\ calls = 2
    /\ passed = 2
    /\ sent = 2
    /\ resp.status_code = 500
    /\ resp.body = NotJson
    /\ outcome.kind = "return"

\* C12: every 2xx status counts as success: an envelope method answered
\* with a 2xx status and populated data reads the body and returns the
\* decoded data (or its designated field), not the absent value.
C12_Every2xxIsSuccess ==
    (Done /\ call.method \in EnvelopeMethods /\ SuccessStatus /\ PopulatedData)
        => /\ outcome.read_body
           /\ outcome = Return(C3_Decoded(call.method, resp.body.json.data), TRUE)

\* the JSON value json matches the schema method m decodes it against
MatchesSchema(m, json) ==
    IF m = "get_following_activities" THEN Validates("FeedData", json)
    ELSE IF m = "search_videos_snapshot"
    THEN /\ "meta" \in DOMAIN json
         /\ "data" \in DOMAIN json
         /\ Validates("SnapshotSearchMeta", json.meta)
         /\ "list" \in DOMAIN json.data
    ELSE /\ "meta" \in DOMAIN json
         /\ "data" \in DOMAIN json
         /\ Validates("NvAPIMeta", json.meta)
         /\ (json.data = JsonNull \/ Validates(ResponseClass(m), json.data))

\* the body is not JSON, or is JSON that does not match the schema
MalformedBody ==
    \/ resp.body.kind = "not_json"
    \/ resp.body.kind = "json" /\ ~MatchesSchema(call.method, resp.body.json)

DecodeErrors == {"JSONDecodeError", "ValidationError"}

\* C13: a decoding method answered with a success status and a body that is
\* not JSON or does not match the schema ends by raising a decode error; it
\* does not return (so never returns the absent value).
C13_MalformedRaises ==
    (Done /\ call.method \in DecodingMethods /\ SuccessStatus /\ MalformedBody)
        => /\ outcome.kind = "raise"
           /\ outcome.error \in DecodeErrors

\* the invocation ended after its request was issued and no response came
\* back: the transport failed
TransportFailed == Done /\ req.issued /\ ~Responded

\* C14: an invocation whose transport call failed ends by raising the
\* transport's error, returns nothing (no None, [] or False), and the step
\* in which it fails issues no further request.
C14_TransportErrorPropagates ==
    /\ [](TransportFailed
            => (outcome.kind = "raise" /\ outcome.error = "ConnectionError"))
    /\ [][(pc = "waiting" /\ pc' = "done" /\ resp' = NoResponse)
            => (sent' = sent /\ req' = req /\ outcome'.kind = "raise")]_vars

C14_Witness ==
    /\ TransportFailed
    /\ call.method = "follow_user"
    /\ outcome = Raise("ConnectionError", FALSE)
    /\ sent = 1

\* the write operations that answer with a bool
BoolMethods == {"follow_user", "unfollow_user", "add_mylist_item", "remove_mylist_items"}

\* the one status each of them reports as True
C20_SuccessCode(m) == IF m = "add_mylist_item" THEN 201 ELSE 200

\* C20: a bool-returning write operation that received a response returns
\* True exactly when the status is 201 (add_mylist_item) or 200 (the other
\* three), False for every other status, without reading the body or
\* raising.
C20_BoolByStatus ==
    (Done /\ call.method \in BoolMethods /\ Responded)
        => outcome = Return(PyBool(resp.status_code = C20_SuccessCode(call.method)), FALSE)

C20_Witness ==
    /\ Done
    /\ call.method = "add_mylist_item"
    /\ resp.status_code = 200
    /\ resp.body = NotJson
    /\ outcome = Return(PyBool(FALSE), FALSE)

(***************************************************************************)
(* Properties of query building                                            *)
(***************************************************************************)
Built == pc = "built"

\* the four video search and facet methods
VideoSearchMethods ==
    {"search_videos_by_keyword", "search_videos_by_tag",
     "get_facet_by_keyword", "search_facet_by_tag"}

\* the optional parameters of method m with the key each one is sent under
C6_Optional(m) ==
    CASE m \in VideoSearchMethods ->
            << <<"sensitive_content", "sensitiveContent">>,
               <<"channel_video_listing_status", "channelVideoListingStatus">>,
               <<"allow_future_contents", "allowFutureContents">>,
               <<"search_by_user", "searchByUser">>,
               <<"min_registered_at", "minRegisteredAt">>,
               <<"max_registered_at", "maxRegisteredAt">>,
               <<"max_duration", "maxDuration">> >>
      [] m \in {"get_user_videos", "get_own_videos"} ->
            << <<"sensitive_contents", "sensitiveContents">> >>
      [] m = "get_recommendations" ->
            << <<"video_id", "videoId">>, <<"limit", "limit">>,
               <<"with_reason", "with_reason">>,
               <<"sensitive_contents", "sensitiveContents">>,
               <<"recipe_version", "recipeVersion">> >>
      [] m = "search_lists" -> << <<"types", "types">> >>
      [] m = "search_videos_snapshot" ->
            << <<"fields", "fields">>, <<"json_filter", "jsonFilter">> >>
      [] m = "get_following_activities" -> << <<"cursor", "cursor">> >>
      [] OTHER -> <<>>

IsFilterKey(k) == Len(k) >= 8 /\ SubSeq(k, 1, 8) = "filters["

\* C6: in the query string a method builds, the key of an optional parameter
\* that was omitted does not occur, and the key of one that was supplied
\* occurs exactly once; no filters[...] key occurs when filters was omitted.
C6_OptionalKeys ==
    Built =>
        LET ks == ParsedKeys(QueryOf(req.url))
            opt == C6_Optional(call.method)
        IN  /\ \A i \in 1..Len(opt) :
                  Count(ks, opt[i][2]) = IF IsNone(call.args[opt[i][1]]) THEN 0 ELSE 1
            /\ (call.method = "search_videos_snapshot" /\ IsNone(call.args.filters))
                  => \A i \in 1..Len(ks) : ~IsFilterKey(ks[i])

\* C7: the query string a method builds splits on "&" into one key=value
\* pair per key the method included (the keys of its query, then its
\* filters[...] parameters), in that order, whatever characters the values
\* hold.
C7_OnePairPerKey ==
    (Built /\ req.issued) =>
        LET ps == Pairs(QueryOf(req.url))
        IN  /\ Len(ps) = Len(req.query) + Len(req.filter_params)
            /\ \A i \in 1..Len(req.query) :
                  i <= Len(ps) => ps[i] = req.query[i][1] \o "=" \o req.query[i][2]

\* C8: search_videos_by_keyword(keyword="test") with every other argument at
\* its default builds exactly the query string
\* keyword=test&sortKey=hot&sortOrder=none&pageSize=25&page=1.
C8_KeywordExample ==
    (Built /\ call.method = "search_videos_by_keyword"
           /\ call.args = DefaultArgs("search_videos_by_keyword"))
        => /\ QueryOf(req.url) = "keyword=test&sortKey=hot&sortOrder=none&pageSize=25&page=1"
           /\ req.url = "https://nvapi.nicovideo.jp/v2/search/video?"
                            \o "keyword=test&sortKey=hot&sortOrder=none&pageSize=25&page=1"

C8_Witness ==
    /\ Built
    /\ call.method = "search_videos_by_keyword"
    /\ call.args = DefaultArgs("search_videos_by_keyword")
    /\ req.issued

\* the specified order of the keys
C9_Order ==
    <<"keyword", "tag", "sortKey", "sortOrder", "pageSize", "page", "sensitiveContent",
      "channelVideoListingStatus", "allowFutureContents", "searchByUser",
      "minRegisteredAt", "maxRegisteredAt", "maxDuration">>

C9_Pos(k) == CHOOSE i \in 1..Len(C9_Order) : C9_Order[i] = k

C9_InOrder(ks) ==
    /\ \A i \in 1..Len(ks) : \E j \in 1..Len(C9_Order) : C9_Order[j] = ks[i]
    /\ \A i, j \in 1..Len(ks) : i < j => C9_Pos(ks[i]) < C9_Pos(ks[j])

C9_ArgTexts(a) ==
    {IF "keyword" \in DOMAIN a THEN a.keyword ELSE a.tag,
     Dflt(a.min_registered_at, ""), Dflt(a.max_registered_at, "")}

\* C9: the keys of a video search or facet query stand in one fixed order
\* whatever optional parameters are given: the term (keyword or tag), sortKey,
\* sortOrder, pageSize and page (search methods only), then the seven filters;
\* the tag methods never emit keyword and the keyword methods never emit tag.
\* Where no value holds a reserved character the emitted text splits into
\* exactly these keys.
C9_FixedKeyOrder ==
    (Built /\ call.method \in VideoSearchMethods) =>
        LET ks == Keys(req.query)
            m == call.method
            byTag == m \in {"search_videos_by_tag", "search_facet_by_tag"}
            paged == m \in {"search_videos_by_keyword", "search_videos_by_tag"}
        IN  /\ C9_InOrder(ks)
            /\ ks[1] = (IF byTag THEN "tag" ELSE "keyword")
            /\ ks[2] = "sortKey"
            /\ ks[3] = "sortOrder"
            /\ Count(ks, IF byTag THEN "keyword" ELSE "tag") = 0
            /\ IF paged THEN ks[4] = "pageSize" /\ ks[5] = "page"
               ELSE Count(ks, "pageSize") = 0 /\ Count(ks, "page") = 0
            /\ (\A t \in C9_ArgTexts(call.args) : ~HasReserved(t))
                    => ParsedKeys(QueryOf(req.url)) = ks

C9_Witness ==
    /\ Built
    /\ call.method = "search_facet_by_tag"
    /\ call.args.tag = "test"
    /\ Keys(req.query) = <<"tag", "sortKey", "sortOrder", "allowFutureContents",
                           "minRegisteredAt", "maxDuration">>
    /\ ParsedKeys(QueryOf(req.url)) = Keys(req.query)

\* the number of conditions of one filter field
C10_Conds(e) ==
    IF e.kind = "dict" THEN Len(e.dict) ELSE IF e.kind = "list" THEN Len(e.list) ELSE 0

\* the number of conditions of the first n fields
RECURSIVE C10_Before(_, _)
C10_Before(filters, n) ==
    IF n = 0 THEN 0 ELSE C10_Before(filters, n - 1) + C10_Conds(filters[n])

\* C10: _build_filter_params emits filters[field][operator]=value for each
\* entry of a mapping and filters[field][i]=value, i from 0, for each element
\* of a list, in the iteration order of the fields and of their conditions,
\* one parameter per condition; {"viewCounter": {"gt": 100}} gives exactly
\* filters[viewCounter][gt]=100.
C10_FilterParams ==
    (Built /\ call.method = "search_videos_snapshot" /\ ~IsNone(call.args.filters)) =>
        LET filters == Val(call.args.filters)
            out == req.filter_params
        IN  /\ Len(out) = C10_Before(filters, Len(filters))
            /\ \A n \in 1..Len(filters) :
                 LET e == filters[n]
                     base == C10_Before(filters, n - 1)
                 IN  /\ e.kind = "dict" =>
                            \A c \in 1..Len(e.dict) :
                                out[base + c] = "filters[" \o e.field \o "][" \o e.dict[c][1]
                                                    \o "]=" \o ToString(e.dict[c][2])
                     /\ e.kind = "list" =>
                            \A c \in 1..Len(e.list) :
                                out[base + c] = "filters[" \o e.field \o "]["
                                                    \o ToString(c - 1) \o "]=" \o e.list[c]
            /\ filters = << [field |-> "viewCounter", kind |-> "dict",
                             dict |-> << <<"gt", 100>> >>, list |-> <<>>] >>
                    => out = <<"filters[viewCounter][gt]=100">>

C10_Witness ==
    /\ Built
    /\ call.method = "search_videos_snapshot"
    /\ ~IsNone(call.args.filters)
    /\ req.filter_params = <<"filters[viewCounter][gt]=100", "filters[genre][0]=game",
                             "filters[genre][1]=a&b">>

\* C16: every request a method issues goes through the client's session.
C16_ThroughSession ==
    (Built /\ req.issued) => req.via = "session"

\* the boolean parameters of method m with the key each is sent under
C17_Booleans(m) ==
    CASE m \in VideoSearchMethods ->
            << <<"allow_future_contents", "allowFutureContents">>,
               <<"search_by_user", "searchByUser">> >>
      [] m = "create_mylist" -> << <<"is_public", "isPublic">> >>
      [] m = "get_recommendations" -> << <<"with_reason", "with_reason">> >>
      [] OTHER -> <<>>

\* what the request carries for key k: the values of the pairs of its query
\* string, or of its form for create_mylist
C17_Emitted(k) ==
    IF call.method = "create_mylist"
    THEN {req.form[i][2] : i \in {j \in 1..Len(req.form) : req.form[j][1] = k}}
    ELSE LET ps == Pairs(QueryOf(req.url))
         IN  {SubSeq(ps[i], Len(k) + 2, Len(ps[i])) :
                  i \in {j \in 1..Len(ps) : PairKey(ps[j]) = k}}

\* C17: a boolean parameter that was supplied is sent as "true" for True and
\* "false" for False, and as nothing else; a supplied False is not dropped.
C17_BooleanLiterals ==
    Built =>
        LET bs == C17_Booleans(call.method)
        IN  \A i \in 1..Len(bs) :
                ~IsNone(call.args[bs[i][1]])
                    => C17_Emitted(bs[i][2]) = {BoolLiteral(Val(call.args[bs[i][1]]))}

\* the verb of method m
C18_Verb(m) ==
    CASE m \in {"follow_user", "add_mylist_item", "create_mylist"} -> "POST"
      [] m \in {"unfollow_user", "remove_mylist_items"} -> "DELETE"
      [] OTHER -> "GET"

\* C18: every get_ and search_ method issues a GET, follow_user,
\* add_mylist_item and create_mylist a POST, unfollow_user and
\* remove_mylist_items a DELETE; only create_mylist sends a body, a form of
\* the five fields name, description, isPublic, defaultSortKey,
\* defaultSortOrder, and its URL has no query string.
C18_FixedVerbs ==
    (Built /\ req.issued) =>
        /\ req.verb = C18_Verb(call.method)
        /\ IF call.method = "create_mylist"
           THEN /\ Keys(req.form) = <<"name", "description", "isPublic",
                                      "defaultSortKey", "defaultSortOrder">>
                /\ IndexFrom(req.url, "?", 1) = 0
                /\ req.query = <<>>
           ELSE req.form = <<>>

C18_Witness ==
    /\ Built
    /\ call.method = "create_mylist"
    /\ call.args.is_public = Some(TRUE)
    /\ req.verb = "POST"
    /\ req.url = "https://nvapi.nicovideo.jp/v1/users/me/mylists"
    /\ Len(req.form) = 5

C15_MethodStep(c) == threads[c].pc # "idle" /\ threads'[c].pc # "idle"

\* C15: no step of a method writes to the client objects' fields, to the
\* session's authentication state or to the argument objects the caller
\* passed (the filters and json_filter mappings, the targets, fields, types
\* and item_ids lists among them).
C15_NoLocalMutation ==
    [][/\ client' = client
       /\ loggedIn' = loggedIn
       /\ \A c \in Callers :
             C15_MethodStep(c) => threads'[c].call = threads[c].call]_vars

C15_Witness ==
    /\ threads["t1"].pc = "done"
    /\ threads["t1"].call.method = "search_videos_snapshot"
    /\ threads["t1"].call.args.filters # None
    /\ threads["t1"].call.args.targets = <<"title", "tags">>
    /\ threads["t1"].outcome.kind = "return"
    /\ threads["t2"].pc = "done"
    /\ threads["t2"].call.method = "remove_mylist_items"
    /\ threads["t2"].call.args.item_ids = <<"sm9", "sm10">>
    /\ threads["t2"].outcome.kind = "return"
    /\ client = ClientFields

\* C19: what an invocation builds and returns is determined by its own
\* method and arguments, the session's authentication state and its own
\* response: two invocations equal in these have the same request and the
\* same outcome, and a step of one caller's invocation changes nothing of
\* another caller's.
C19_NoInterference ==
    /\ [](\A c, d \in Callers :
            (/\ threads[c].pc = "done"
             /\ threads[d].pc = "done"
             /\ threads[c].call = threads[d].call
             /\ threads[c].resp = threads[d].resp
             /\ threads[c].resp # NoResponse)
                => /\ threads[c].req = threads[d].req
                   /\ threads[c].outcome = threads[d].outcome)
    /\ [][\A c, d \in Callers :
            (c # d /\ threads'[c] # threads[c]) => threads'[d] = threads[d]]_vars

C19_Witness ==
    /\ threads["t1"].pc = "done"
    /\ threads["t2"].pc = "done"
    /\ threads["t1"].call.method = "search_videos_by_keyword"
    /\ threads["t2"].call = threads["t1"].call
    /\ threads["t1"].resp.status_code = 200
    /\ threads["t1"].resp.body.kind = "json"
    /\ threads["t2"].resp = threads["t1"].resp
    /\ threads["t1"].outcome.kind = "return"
    /\ threads["t2"].outcome = threads["t1"].outcome

(***************************************************************************)
(* Properties of single methods                                            *)
(***************************************************************************)
\* the values the query string carries for key k
ValuesOf(qs, k) ==
    LET ps == Pairs(qs)
    IN  [i \in 1..Len(ps) |-> IF PairKey(ps[i]) = k
                              THEN SubSeq(ps[i], Len(k) + 2, Len(ps[i])) ELSE ""]

Snapshot == Built /\ call.method = "search_videos_snapshot"

\* C21: the query string of search_videos_snapshot carries _sort exactly
\* once; its value is "-" and the sort key when _sort_order is "desc" (the
\* default), and the bare sort key when _sort_order is "asc" or "none".
C21_SortPrefix ==
    Snapshot =>
        LET order == Dflt(call.args._sort_order, "desc")
            ks == ParsedKeys(QueryOf(req.url))
            i == CHOOSE j \in 1..Len(ks) : ks[j] = "_sort"
        IN  /\ Count(ks, "_sort") = 1
            /\ ValuesOf(QueryOf(req.url), "_sort")[i] =
                  IF order = "desc" THEN "-" \o call.args._sort ELSE call.args._sort

C21_Witness ==
    /\ Snapshot
    /\ call.args._sort_order = Some("none")
    /\ HasKey(req.query, "_sort")
    /\ Count(Pairs(QueryOf(req.url)), "_sort=viewCounter") = 1

\* the keys of the snapshot query in the specified order
C22_Keys(a) ==
    <<"q", "_offset", "_limit", "_context", "targets">>
        \o (IF IsNone(a.fields) THEN <<>> ELSE <<"fields">>)
        \o <<"_sort">>
        \o (IF IsNone(a.json_filter) THEN <<>> ELSE <<"jsonFilter">>)

C22_FilterParams(a) ==
    IF IsNone(a.filters) THEN <<>> ELSE _build_filter_params(Val(a.filters))

\* C22: the query string of search_videos_snapshot is its keys in the order
\* q, _offset, _limit, _context, targets, fields (if given), _sort,
\* jsonFilter (if given), followed by the filters[...] parameters in the
\* order _build_filter_params returns them; when there are none nothing is
\* appended: the text does not end with "&" and holds no empty pair.
C22_SnapshotOrder ==
    Snapshot =>
        LET qs == QueryOf(req.url)
            fp == C22_FilterParams(call.args)
        IN  /\ Keys(req.query) = C22_Keys(call.args)
            /\ qs = StrJoin("&", [i \in 1..Len(req.query) |->
                                      req.query[i][1] \o "=" \o req.query[i][2]] \o fp)
            /\ SubSeq(qs, Len(qs), Len(qs)) # "&"
            /\ \A i \in 1..Len(Pairs(qs)) : Pairs(qs)[i] # ""

C22_Witness ==
    /\ Snapshot
    /\ ~IsNone(call.args.filters)
    /\ Len(Val(call.args.filters)) = 2
    /\ req.filter_params = <<>>
    /\ ~IsNone(call.args.fields)
    /\ ~IsNone(call.args.json_filter)
    /\ Keys(req.query) = <<"q", "_offset", "_limit", "_context", "targets", "fields",
                           "_sort", "jsonFilter">>

\* the values the query string carries under key k, in order
Carried(k) ==
    LET qs == QueryOf(req.url)
        ks == ParsedKeys(qs)
    IN  [i \in 1..Count(ks, k) |->
            ValuesOf(qs, k)[CHOOSE j \in 1..Len(ks) :
                /\ ks[j] = k
                /\ Cardinality({h \in 1..j : ks[h] = k}) = i]]

\* C23: search_lists sends no types key when types is None, and for every
\* list it is given sends one types parameter naming exactly the types of
\* that list (comma-joined), also for a list of two types and an empty list.
C23_TypesFollowCaller ==
    (Built /\ call.method = "search_lists") =>
        Carried("types") = IF IsNone(call.args.types) THEN <<>>
                           ELSE <<StrJoin(",", Val(call.args.types))>>

\* C24: get_recommendations sends limit equal to the caller's value when
\* limit is supplied (0 included), with or without video_id; when limit is
\* omitted it sends limit=25 if video_id is given and no limit otherwise.
C24_LimitFollowsCaller ==
    (Built /\ call.method = "get_recommendations") =>
        Carried("limit") = IF ~IsNone(call.args.limit) THEN <<Str(Val(call.args.limit))>>
                           ELSE IF ~IsNone(call.args.video_id) THEN <<"25">>
                           ELSE <<>>

\* the documented recipe ids
RecipeIds ==
    {"video_watch_recommendation", "video_recommendation_recommend", "video_top_recommend"}

\* C25: get_recommendations sends one recipeId: the caller's recipe_id when
\* supplied, otherwise one of the three documented recipe ids.
C25_RecipeIdIsRecipe ==
    (Built /\ call.method = "get_recommendations") =>
        /\ Len(Carried("recipeId")) = 1
        /\ IF IsNone(call.args.recipe_id)
           THEN Carried("recipeId")[1] \in RecipeIds
           ELSE Carried("recipeId")[1] = Val(call.args.recipe_id)

\* the envelope reports a failure: meta.status is not 200, or meta carries
\* an errorCode
FailingMeta ==
    /\ WellFormedEnvelope
    /\ \/ resp.body.json.meta.status # "200"
       \/ "errorCode" \in DOMAIN resp.body.json.meta

\* C27: an envelope method answered with HTTP status 200 and an envelope
\* whose meta reports a failure returns its absent value, also when the data
\* field of that envelope is populated.
C27_FailingMetaYieldsAbsent ==
    (Done /\ call.method \in EnvelopeMethods /\ resp.status_code = codes_ok
          /\ FailingMeta /\ PopulatedData)
        => /\ outcome.kind = "return"
           /\ outcome.value = AbsentValue(call.method)

\* get_following_activities passed the gate and built its request
Feed == call.method = "get_following_activities" /\ req.issued

\* C26: get_following_activities answered with status 200 either returns the
\* FeedData decoded from the body itself (no {meta, data} envelope around
\* it) or raises a decode error, and returns None only for another status;
\* its query carries context first and, only when cursor is not None, cursor
\* second.
C26_FeedDecodedDirectly ==
    Feed =>
        /\ Keys(req.query) = IF IsNone(call.args.cursor) THEN <<"context">>
                             ELSE <<"context", "cursor">>
        /\ ParsedKeys(QueryOf(req.url)) = Keys(req.query)
        /\ (Done /\ Responded /\ resp.status_code = codes_ok) =>
              \/ /\ outcome.kind = "raise"
                 /\ outcome.error \in DecodeErrors
              \/ /\ outcome.kind = "return"
                 /\ resp.body.kind = "json"
                 /\ Validates("FeedData", resp.body.json)
                 /\ outcome.value = PyModel(Construct("FeedData", resp.body.json))
                 /\ outcome.value # PyNone
        /\ (Done /\ Responded /\ outcome.kind = "return" /\ outcome.value = PyNone) =>
              resp.status_code # codes_ok

C26_Witness ==
    /\ Feed
    /\ Done
    /\ ~IsNone(call.args.cursor)
    /\ Keys(req.query) = <<"context", "cursor">>
    /\ resp.status_code = codes_ok
    /\ outcome.kind = "return"
    /\ outcome.value.py = "model"

(***************************************************************************)
(* Properties of niconico/utils.py                                         *)
(***************************************************************************)
Returned(m) == pc = "returned" /\ call.method = m

\* an id begins at position i of u: a digit, or sm, nm or so followed by a
\* digit
C28_Starts(u, i) ==
    \/ IsDigit(Char(u, i))
    \/ /\ i + 2 <= Len(u)
       /\ SubSeq(u, i, i + 1) \in {"sm", "nm", "so"}
       /\ IsDigit(Char(u, i + 2))

\* s is the leftmost id of u: it begins where the first id begins, takes
\* the prefix when there is one, and runs to the end of the digits
C28_LeftmostId(u, s) ==
    \E i \in 1..Len(u) : \E j \in i..Len(u) :
        /\ s = SubSeq(u, i, j)
        /\ C28_Starts(u, i)
        /\ \A h \in 1..(i - 1) : ~C28_Starts(u, h)
        /\ LET d == IF IsDigit(Char(u, i)) THEN i ELSE i + 2
           IN  /\ j >= d
               /\ \A h \in d..j : IsDigit(Char(u, h))
               /\ j = Len(u) \/ ~IsDigit(Char(u, j + 1))

\* C28: extract_video_id_from_url returns None exactly when the url holds no
\* decimal digit; otherwise it returns the leftmost substring made of an
\* optional sm, nm or so and the maximal run of digits after it, which is
\* not empty and ends in a digit.
C28_ExtractsLeftmostId ==
    Returned("extract_video_id_from_url") =>
        LET u == call.args.url
            r == outcome.value
        IN  /\ outcome.kind = "return"
            /\ (r.py = "None") <=> ~(\E i \in 1..Len(u) : IsDigit(Char(u, i)))
            /\ r.py # "None" =>
                  /\ r.py = "str"
                  /\ C28_LeftmostId(u, r.s)
                  /\ Len(r.s) > 0
                  /\ IsDigit(Char(r.s, Len(r.s)))

C28_Witness ==
    /\ Returned("extract_video_id_from_url")
    /\ call.args.url = "/sm1"
    /\ outcome.value = PyStr("sm1")

\* d[k]
C29_Get(d, k) == d[CHOOSE i \in 1..Len(d) : d[i][1] = k][2]

C29_KeySet(d) == {d[i][1] : i \in 1..Len(d)}

\* C29: add_optional_param leaves the dict as it was when value is None;
\* otherwise query[key] is str(value) afterwards, also for 0 and "",
\* whatever was there before; every other entry is as it was; the dict gains
\* at most the one key and loses none.
C29_SetsUnlessNone ==
    Returned("add_optional_param") =>
        LET q == call.args.query
            k == call.args.key
            v == call.args.value
            after == req.query
        IN  /\ IsNone(v) => after = q
            /\ ~IsNone(v) =>
                  /\ HasKey(after, k)
                  /\ C29_Get(after, k) = IF call.args.type = "int" THEN Str(Val(v)) ELSE Val(v)
            /\ \A k2 \in C29_KeySet(q) \ {k} :
                  HasKey(after, k2) /\ C29_Get(after, k2) = C29_Get(q, k2)
            /\ C29_KeySet(q) \subseteq C29_KeySet(after)
            /\ C29_KeySet(after) \subseteq C29_KeySet(q) \cup {k}
            /\ Len(after) = Cardinality(C29_KeySet(after))
            /\ Len(after) <= Len(q) + 1

C29_Witness ==
    /\ Returned("add_optional_param")
    /\ call.args.type = "int"
    /\ call.args.value = Some(0)
    /\ call.args.key = "limit"
    /\ call.args.query = << <<"limit", "1">>, <<"page", "2">> >>
    /\ req.query = << <<"limit", "0">>, <<"page", "2">> >>

====
